---- MODULE Spec2Model ----
(***************************************************************************)
(* Final-response-match (v2) evaluator of the agent development kit:       *)
(* label extraction from the judge model's answer, score conversion,       *)
(* aggregation of per-invocation results and the prompt for the judge;     *)
(* the agent factory, which builds agents from configs; and the two GitHub *)
(* requests of the release-notes agent.                                    *)
(*                                                                         *)
(* A text is a sequence of one-character strings.  A Python Optional is a  *)
(* sequence of length 0 (None) or 1 (the value).  A float is kept exact:   *)
(* scores are integer-valued, a quotient is the pair [num, den].           *)
(***************************************************************************)
EXTENDS Integers, Sequences, FiniteSets, TLC

VARIABLES
  judge_answer,   \* the chunks the judge model wrote, in order
  response_text,  \* the text handed to the evaluator (the chunks joined)
  called,         \* which entry point has run on response_text
  label,          \* result of a direct _extract_validity_label call
  match_end,      \* last character consumed by the successful re.search
  rater_label,    \* local `label` of convert_auto_rater_response_to_score
  score,          \* result of convert_auto_rater_response_to_score
  score_raised,   \* name of the exception it raised, "" when none
  logged,         \* logger.error entries it wrote
  judge_responses, \* the judge answers of the samples scored so far in a run
  threshold,              \* self._eval_metric.threshold
  per_invocation_results, \* the list handed to aggregate_invocation_results
  aggregated,             \* TRUE once aggregate_invocation_results has run
  raised,                 \* name of the exception it raised, "" when none
  evaluation_result,      \* Optional EvaluationResult it returned
  auto_rater_prompt_template, \* self._auto_rater_prompt_template
  actual_invocation,      \* the actual invocation handed to the formatter
  expected_invocation,    \* the expected invocation handed to the formatter
  prompt,                 \* Optional prompt format_auto_rater_prompt returned
  format_calls,           \* how many times it has been called
  agent_registry,         \* AgentFactory._agent_registry
  config_registry,        \* AgentFactory._config_registry
  registrations,          \* how many _register_agent_type calls were made
  registered,             \* Optional arguments of the last of these calls
  factory_called,         \* which entry point of the factory has run
  factory_config,         \* the config it was given
  factory_raised,         \* name of the exception it raised, "" when none
  factory_result,         \* Optional agent it returned
  agent_heap,             \* the agents that exist, in order of construction
  commits_phase,          \* where get_commits is: idle, running or returned
  page,                   \* local `page` of get_commits
  all_commits,            \* local `all_commits` of get_commits
  page_responses,         \* what the server answered to each request so far
  commits_result,         \* Optional list get_commits returned
  file_response,          \* Optional answer of the server to get_file_content
  file_outcome,           \* Optional outcome of get_file_content
  printed                 \* what the two functions printed, in order

vars == <<judge_answer, response_text, called, label, match_end, rater_label,
          score, score_raised, logged, judge_responses, threshold, per_invocation_results, aggregated, raised,
          evaluation_result, auto_rater_prompt_template, actual_invocation,
          expected_invocation, prompt, format_calls, agent_registry,
          config_registry, registrations, registered, factory_called,
          factory_config,
          factory_raised, factory_result, agent_heap, commits_phase, page,
          all_commits, page_responses, commits_result, file_response,
          file_outcome, printed>>

releaseVars == <<commits_phase, page, all_commits, page_responses,
                 commits_result, file_response, file_outcome, printed>>

factoryVars == <<agent_registry, config_registry, registrations, registered,
                 factory_called, factory_config, factory_raised,
                 factory_result, agent_heap>>

promptVars == <<auto_rater_prompt_template, actual_invocation,
                expected_invocation, prompt, format_calls>>

scoreVars == <<judge_answer, response_text, called, label, match_end,
               rater_label, score, score_raised, logged, judge_responses>>

aggVars == <<threshold, per_invocation_results, aggregated, raised,
             evaluation_result>>

----------------------------------------------------------------------------
(* Optional values                                                         *)

None == <<>>

Some(v) == <<v>>

----------------------------------------------------------------------------
(* Texts                                                                   *)

RECURSIVE Join(_)
Join(chunks) ==
  IF chunks = <<>> THEN <<>> ELSE Head(chunks) \o Join(Tail(chunks))

KeyStem ==
  <<"\"", "i", "s", "_", "t", "h", "e", "_", "a", "g", "e", "n", "t", "_",
    "r", "e", "s", "p", "o", "n", "s", "e", "_">>

WordValid == <<"v", "a", "l", "i", "d">>

WordInvalid == <<"i", "n">> \o WordValid

\* the literal prefix of the first pattern, quotes and colon included
ValidKeyLiteral == KeyStem \o WordValid \o <<"\"", ":">>

\* the literal prefix of the second pattern, quotes and colon included
InvalidKeyLiteral == KeyStem \o WordInvalid \o <<"\"", ":">>

\* \s of a Python str pattern, over the characters of the model
IsSpace(c) == c \in {" ", "\n", "\t"}

\* str.strip(): leading and trailing whitespace removed
RECURSIVE LStrip(_)
LStrip(text) ==
  IF text # <<>> /\ IsSpace(Head(text)) THEN LStrip(Tail(text)) ELSE text

RECURSIVE RStrip(_)
RStrip(text) ==
  IF text # <<>> /\ IsSpace(text[Len(text)])
    THEN RStrip(SubSeq(text, 1, Len(text) - 1))
    ELSE text

Strip(text) == RStrip(LStrip(text))

----------------------------------------------------------------------------
(* The pattern after the key literal is nine starred character classes    *)
(* and one final class:                                                    *)
(*   1 whitespace      2 opening bracket   3 whitespace                    *)
(*   4 double quote    5 the group: any character but double quote, caret, *)
(*                       closing bracket and whitespace                    *)
(*   6 double quote    7 whitespace        8 closing bracket               *)
(*   9 whitespace      final: comma, newline or closing brace              *)
(* Every star is greedy and backtracks.                                    *)

GroupItem == 5

LastItem == 9

InItemClassGroupTakesWhitespace(k, c) ==
  CASE k = 1 -> IsSpace(c)
    [] k = 2 -> c = "["
    [] k = 3 -> IsSpace(c)
    [] k = 4 -> c = "\""
    [] k = 5 -> ~(c \in {"\"", "^", "]"})
    [] k = 6 -> c = "\""
    [] k = 7 -> IsSpace(c)
    [] k = 8 -> c = "]"
    [] k = 9 -> IsSpace(c)

InItemClass(k, c) ==
  CASE k = 1 -> IsSpace(c)
    [] k = 2 -> c = "["
    [] k = 3 -> IsSpace(c)
    [] k = 4 -> c = "\""
    [] k = 5 -> ~(c \in {"\"", "^", "]"} \/ IsSpace(c))
    [] k = 6 -> c = "\""
    [] k = 7 -> IsSpace(c)
    [] k = 8 -> c = "]"
    [] k = 9 -> IsSpace(c)

IsTerminatorNoNewline(c) == c \in {",", "}"}

\* the final class
IsTerminator(c) == c \in {",", "\n", "}"}

\* number of consecutive characters of item k's class from position pos on
RECURSIVE RunLength(_, _, _)
RunLength(text, pos, k) ==
  IF pos <= Len(text) /\ InItemClass(k, text[pos])
    THEN 1 + RunLength(text, pos + 1, k)
    ELSE 0

\* Backtracking match of items k.. from position pos, item k taking at most
\* n characters: the positions after each item and after the final class,
\* or <<>> when nothing matches.  Longer repetitions are tried first.
RECURSIVE MatchItems(_, _, _, _)
MatchItems(text, pos, k, n) ==
  IF k > LastItem
    THEN IF pos <= Len(text) /\ IsTerminator(text[pos])
           THEN <<pos + 1>>
           ELSE <<>>
    ELSE LET after == pos + n
             rest  == IF k = LastItem
                        THEN MatchItems(text, after, k + 1, 0)
                        ELSE MatchItems(text, after, k + 1,
                                        RunLength(text, after, k + 1))
         IN  IF rest # <<>> THEN <<after>> \o rest
             ELSE IF n = 0 THEN <<>>
             ELSE MatchItems(text, pos, k, n - 1)

IsLiteralAt(text, i, literal) ==
  /\ i + Len(literal) - 1 <= Len(text)
  /\ \A j \in 1..Len(literal) : text[i + j - 1] = literal[j]

\* the match of literal followed by the items, with the literal at position i
MatchAt(text, i, literal) ==
  IF IsLiteralAt(text, i, literal)
    THEN MatchItems(text, i + Len(literal), 1,
                    RunLength(text, i + Len(literal), 1))
    ELSE <<>>

\* re.search: the match at the leftmost position that has one.
\* Optional [group |-> group(1), end |-> index of the last matched character]
ReSearch(literal, text) ==
  LET starts == {i \in 1..Len(text) : MatchAt(text, i, literal) # <<>>}
  IN  IF starts = {} THEN None
      ELSE LET i == CHOOSE s \in starts : \A t \in starts : s <= t
               m == MatchAt(text, i, literal)
           IN  Some([group |-> SubSeq(text, m[GroupItem - 1], m[GroupItem] - 1),
                     end   |-> m[LastItem + 1] - 1])

\* which re.search result the function returns group(1) of
ExtractMatchDefaultInvalid(text) ==
  LET label_match_is_response_valid   == ReSearch(ValidKeyLiteral, text)
      label_match_is_response_invalid == ReSearch(InvalidKeyLiteral, text)
  IN  IF label_match_is_response_valid # None
        THEN label_match_is_response_valid
      ELSE IF label_match_is_response_invalid # None
        THEN label_match_is_response_invalid
      ELSE Some([group |-> WordInvalid, end |-> 0])

ExtractMatchNoFallback(text) == ReSearch(ValidKeyLiteral, text)

ExtractMatchByPosition(text) ==
  LET label_match_is_response_valid   == ReSearch(ValidKeyLiteral, text)
      label_match_is_response_invalid == ReSearch(InvalidKeyLiteral, text)
  IN  IF label_match_is_response_valid = None
        THEN label_match_is_response_invalid
      ELSE IF label_match_is_response_invalid = None
        THEN label_match_is_response_valid
      ELSE IF label_match_is_response_valid[1].end
                < label_match_is_response_invalid[1].end
        THEN label_match_is_response_valid
      ELSE label_match_is_response_invalid

ExtractMatch(text) ==
  LET label_match_is_response_valid   == ReSearch(ValidKeyLiteral, text)
      label_match_is_response_invalid == ReSearch(InvalidKeyLiteral, text)
  IN  IF label_match_is_response_valid # None
        THEN label_match_is_response_valid
      ELSE IF label_match_is_response_invalid # None
        THEN label_match_is_response_invalid
      ELSE None

\* _extract_validity_label: Optional text
ExtractValidityLabel(text) ==
  LET m == ExtractMatch(text)
  IN  IF m = None THEN None ELSE Some(m[1].group)

\* get_text_from_content: the text parts of a content, concatenated in
\* order; a part without text is ignored.  A part is [text |-> Optional text].
RECURSIVE GetTextFromContent(_)
GetTextFromContent(parts) ==
  IF parts = <<>> THEN <<>>
  ELSE (IF Head(parts).text = None THEN <<>> ELSE Head(parts).text[1])
         \o GetTextFromContent(Tail(parts))

ScoreOfLabelAnyCase(l) ==
  IF l \in {Some(WordValid), Some(<<"V">> \o Tail(WordValid))} THEN Some(1)
  ELSE IF l = Some(WordInvalid) THEN Some(0)
  ELSE None

\* the if / elif / else of convert_auto_rater_response_to_score
ScoreOfLabel(l) ==
  IF l = Some(WordValid) THEN Some(1)
  ELSE IF l = Some(WordInvalid) THEN Some(0)
  ELSE None

----------------------------------------------------------------------------
(* Judge answers the evaluator is run on                                   *)

MaxFreeLen == 3

Words ==
  { WordValid, WordInvalid, <<"V">> \o Tail(WordValid), <<>>, <<"1", "2">>,
    <<"a", "[", "b">>, <<"n", "o", "t", " ">> \o WordValid }

\* a key that merely starts with the expected name
ValidOrInvalidKey ==
  KeyStem \o WordValid \o <<"_", "o", "r", "_">> \o WordInvalid \o <<"\"", ":">>

\* the expected name with a blank before the colon
SpacedValidKey == KeyStem \o WordValid \o <<"\"", " ", ":">>

Keys ==
  {ValidKeyLiteral, InvalidKeyLiteral, ValidOrInvalidKey, SpacedValidKey, <<>>}

QuotedValue(w) == <<"\"">> \o w \o <<"\"">>

ListValue(w) == <<"[", "\"">> \o w \o <<"\"", "]">>

NewlineListValue(w) == <<"[", " ", "\"">> \o w \o <<"\n", "\"", "]">>

\* the three ways of writing the value that the tests exercise
ValueForms(w) == {QuotedValue(w), ListValue(w), NewlineListValue(w)}

Values ==
  UNION {ValueForms(w) \cup {w, <<"\"">> \o w \o <<"\n", "\"">>} : w \in Words}

Pres == {<<>>, <<"{", "\n", " ">>}

Gaps == {<<>>, <<" ">>, <<"\n", " ", " ">>}

Terms == {<<>>, <<",">>, <<"\n">>, <<"}">>, <<" ", "}">>, <<" ", ",">>}

Posts == {<<>>, <<"\n", "}">>}

\* answers of the shape  pre key gap value term post
ShapedAnswers ==
  { <<pre, key, gap, value, term, post>> :
      pre \in Pres, key \in Keys, gap \in Gaps, value \in Values,
      term \in Terms, post \in Posts }

FreeChunks ==
  { <<" ">>, <<"\n">>, <<"[">>, <<"]">>, <<"\"">>, <<",">>, <<"}">>, <<"^">>,
    <<"x">>, WordValid }

\* a key followed by up to MaxFreeLen arbitrary chunks
FreeAnswers ==
  UNION { { <<key>> \o tail : tail \in [1..n -> FreeChunks] } :
            key \in {ValidKeyLiteral, InvalidKeyLiteral}, n \in 0..MaxFreeLen }

\* answers that hold both keys, in either order, each with a one-word or a
\* two-word value:  pre key value separator key value post
TwoKeyAnswers ==
  { <<<<"{">>, keys[1], <<" ">> \o QuotedValue(first), separator,
      keys[2], <<" ">> \o QuotedValue(second), post>> :
      keys \in {<<ValidKeyLiteral, InvalidKeyLiteral>>,
                <<InvalidKeyLiteral, ValidKeyLiteral>>},
      first \in {WordValid, WordInvalid, <<"n", "o", "t", " ">> \o WordValid},
      second \in {WordValid, WordInvalid, <<"n", "o", "t", " ">> \o WordValid},
      separator \in {<<",", " ">>, <<",", "\n", " ", " ">>},
      post \in {<<"}">>, <<"\n", "}">>} }

\* <<>> stands for a response that holds no text at all
JudgeAnswers == ShapedAnswers \cup FreeAnswers \cup TwoKeyAnswers \cup {<<>>}

\* llm_response.content.parts of the response that carries a judge answer
ContentParts(answer) ==
  IF answer = <<>> THEN <<[text |-> None]>>
  ELSE <<[text |-> Some(Join(answer))]>>

\* raises for a response without a label instead of giving None
ConvertRaisingOnNoLabel(parts) ==
  LET response_text_ == Strip(GetTextFromContent(parts))
      l == ExtractValidityLabel(response_text_)
  IN  IF l = None
        THEN [label |-> l, score |-> None, raised |-> "ValueError", logged |-> <<>>]
        ELSE [label |-> l, score |-> ScoreOfLabel(l), raised |-> "", logged |-> <<>>]

\* convert_auto_rater_response_to_score.  Neither call of the try block
\* parses JSON, so json.JSONDecodeError is not raised in it and the except
\* clause, the one place that logs, is not entered.
ConvertOutcome(parts) ==
  LET response_text_ == Strip(GetTextFromContent(parts))
      l == ExtractValidityLabel(response_text_)
  IN  [label |-> l, score |-> ScoreOfLabel(l), raised |-> "", logged |-> <<>>]

----------------------------------------------------------------------------
(* The prompt for the judge model                                          *)
(*                                                                         *)
(* In a template and in a prompt a run of fixed wording is kept as one     *)
(* symbol; braces and the texts of the invocations are kept character by   *)
(* character.                                                              *)

MaxSpecs == 2

\* FINAL_RESPONSE_MATCH_V2_PROMPT: the instructions, the four fields in a
\* doubled pair of braces, the answer format in a second doubled pair
FINAL_RESPONSE_MATCH_V2_PROMPT ==
  <<"instructions\n",
    "{", "{",
    "\n  \"Function API spec\": ", "{", "function_api_spec", "}",
    ",\n  \"User prompt\": ", "{", "prompt", "}",
    ",\n  \"Agent response\": ", "{", "response", "}",
    ",\n  \"Reference response\": ", "{", "golden_response", "}",
    ",\n",
    "}", "}",
    "\n\nanswer format\n",
    "{", "{",
    "\n  \"is_the_agent_response_valid\": [valid or invalid],\n  \"reasoning\":\n",
    "}", "}",
    "\n">>

\* template.format(**kwargs): a doubled brace gives one brace, a name in
\* braces gives the value of that name, unchanged; everything else is copied
RECURSIVE StrFormat(_, _)
StrFormat(template, kwargs) ==
  IF template = <<>> THEN <<>>
  ELSE IF Head(template) = "{"
    THEN IF template[2] = "{"
           THEN <<"{">> \o StrFormat(SubSeq(template, 3, Len(template)), kwargs)
           ELSE kwargs[template[2]]
                  \o StrFormat(SubSeq(template, 4, Len(template)), kwargs)
  ELSE IF Head(template) = "}"
    THEN <<"}">> \o StrFormat(SubSeq(template, 3, Len(template)), kwargs)
  ELSE <<Head(template)>> \o StrFormat(Tail(template), kwargs)

\* the texts between the separator, the separator between them
RECURSIVE JoinWith(_, _)
JoinWith(separator, texts) ==
  IF texts = <<>> THEN <<>>
  ELSE IF Len(texts) = 1 THEN Head(texts)
  ELSE Head(texts) \o separator \o JoinWith(separator, Tail(texts))

JsonEscapeNothing(c) == <<c>>

\* how json.dumps writes one character of a string
JsonEscape(c) ==
  IF c = "\"" THEN <<"\\", "\"">>
  ELSE IF c = "\\" THEN <<"\\", "\\">>
  ELSE IF c = "\n" THEN <<"\\", "n">>
  ELSE <<c>>

\* json.dumps of a str
JsonString(text) ==
  <<"\"">> \o Join([i \in 1..Len(text) |-> JsonEscape(text[i])]) \o <<"\"">>

\* json.dumps of a dict of str to str, the dict a sequence of key-value pairs
\* in insertion order
JsonObject(pairs) ==
  <<"{">>
    \o JoinWith(<<",", " ">>,
                [i \in 1..Len(pairs) |->
                   JsonString(pairs[i][1]) \o <<":", " ">> \o JsonString(pairs[i][2])])
    \o <<"}">>

\* json.dumps of a list of such dicts
JsonDumps(objects) ==
  <<"[">>
    \o JoinWith(<<",", " ">>, [i \in 1..Len(objects) |-> JsonObject(objects[i])])
    \o <<"]">>

KeyFunctionName == <<"Function name">>

KeyFunctionDescription == <<"Function description">>

\* _format_function_api_spec(functions)
FormatFunctionApiSpec(functions) ==
  LET function_api_spec ==
        [i \in 1..Len(functions) |->
           <<<<KeyFunctionName, functions[i].name>>,
             <<KeyFunctionDescription, functions[i].description>>>>]
  IN  JsonDumps(function_api_spec)

\* the prompt field filled from the user content of the actual invocation
FormatOutcomeUserContentOfActual(template, actual, expected) ==
  [prompt |->
     StrFormat(template,
               [function_api_spec |-> FormatFunctionApiSpec(actual.function_api_spec),
                prompt            |-> GetTextFromContent(actual.user_content),
                response          |-> GetTextFromContent(actual.final_response),
                golden_response   |-> GetTextFromContent(expected.final_response)]),
   auto_rater_prompt_template |-> template,
   actual_invocation          |-> actual,
   expected_invocation        |-> expected]

\* the function specs taken off the actual invocation as they are written
FormatOutcomeConsumingSpecs(template, actual, expected) ==
  [prompt |->
     StrFormat(template,
               [function_api_spec |-> FormatFunctionApiSpec(actual.function_api_spec),
                prompt            |-> GetTextFromContent(expected.user_content),
                response          |-> GetTextFromContent(actual.final_response),
                golden_response   |-> GetTextFromContent(expected.final_response)]),
   auto_rater_prompt_template |-> template,
   actual_invocation          |-> [actual EXCEPT !.function_api_spec = <<>>],
   expected_invocation        |-> expected]

\* format_auto_rater_prompt(actual_invocation, expected_invocation) of an
\* evaluator with the given template: the prompt it returns, and the template
\* and the invocations as it leaves them
FormatOutcome(template, actual, expected) ==
  LET reference == GetTextFromContent(expected.final_response)
      response == GetTextFromContent(actual.final_response)
      user_prompt == GetTextFromContent(expected.user_content)
      function_api_spec == FormatFunctionApiSpec(actual.function_api_spec)
  IN  [prompt |->
         StrFormat(template,
                   [function_api_spec |-> function_api_spec,
                    prompt            |-> user_prompt,
                    response          |-> response,
                    golden_response   |-> reference]),
       auto_rater_prompt_template |-> template,
       actual_invocation          |-> actual,
       expected_invocation        |-> expected]

TextPart(text) == [text |-> Some(text)]

\* a part that holds no text, a function call for one
NonTextPart == [text |-> None]

\* a plain query; a text in two parts around a part without text, with a
\* quote, braces, a backslash and a newline in it
Contents ==
  { <<TextPart(<<"q", "?">>)>>,
    <<TextPart(<<"\"", "{", "r">>), NonTextPart, TextPart(<<"}", "\\", "\n">>)>> }

\* a spec with a backslash and a newline in its description, a spec with a
\* quote in its name
FunctionSpecs ==
  { [name |-> <<"t">>, description |-> <<"\\", "\n">>],
    [name |-> <<"a", "\"">>, description |-> <<"d", ".">>] }

FunctionSpecLists(n) == UNION {[1..k -> FunctionSpecs] : k \in 0..n}

Invocations(n) ==
  [user_content : Contents, final_response : Contents,
   function_api_spec : FunctionSpecLists(n)]

\* the invocations of _create_test_invocations
NoPrompt ==
  /\ auto_rater_prompt_template = FINAL_RESPONSE_MATCH_V2_PROMPT
  /\ actual_invocation =
       [user_content |-> <<TextPart(<<"q", "?">>)>>,
        final_response |-> <<TextPart(<<"q", "?">>)>>,
        function_api_spec |-> <<[name |-> <<"t">>, description |-> <<"d", ".">>]>>]
  /\ expected_invocation =
       [user_content |-> <<TextPart(<<"q", "?">>)>>,
        final_response |-> <<TextPart(<<"q", "?">>)>>,
        function_api_spec |-> <<>>]
  /\ prompt = None
  /\ format_calls = 0

----------------------------------------------------------------------------
(* The agent factory                                                       *)
(*                                                                         *)
(* A Python object is a record: its class in the field class, its          *)
(* attributes in the other fields.  A str is kept as the sequence of its   *)
(* words.  The outcome of a call is the name of the exception it raised,   *)
(* the empty string when none, and the value it returned.                  *)

MaxAgents == 2

MaxRegistrations == 1

Ok(v) == [raised |-> "", value |-> v]

Raise(e) == [raised |-> e, value |-> None]

\* pydantic's ValidationError is a ValueError
IsValueError(e) == e \in {"ValueError", "ValidationError"}

\* obj.attr
GetAttr(obj, attr) ==
  IF attr \in (DOMAIN obj) \ {"class"} THEN Ok(obj[attr])
  ELSE Raise("AttributeError")

PyNone == [class |-> "NoneType"]

PyInt == [class |-> "int"]

PyStr(words) == [class |-> "str", value |-> words]

PyList(items) == [class |-> "list", items |-> items]

PyDict(entries) == [class |-> "dict", entries |-> entries]

\* bool(x) of an Optional list or an Optional str
Truthy(optional) == optional # None /\ optional[1] # <<>>

CodeConfig(name) == [class |-> "CodeConfig", name |-> name, args |-> None]

SubAgentConfig(config, code) ==
  [class |-> "SubAgentConfig", config |-> config, code |-> code]

LlmAgentConfig(name, callbacks, sub_agents) ==
  [class |-> "LlmAgentConfig", name |-> name, description |-> <<>>,
   instruction |-> <<"i">>,
   before_agent_callbacks |-> callbacks, sub_agents |-> sub_agents]

LoopAgentConfig(name, callbacks, sub_agents) ==
  [class |-> "LoopAgentConfig", agent_type |-> "LoopAgent",
   name |-> name, description |-> <<>>,
   before_agent_callbacks |-> callbacks, sub_agents |-> sub_agents]

CustomAgentConfig(name, path, callbacks, sub_agents) ==
  [class |-> "CustomAgentConfig", agent_type |-> "CustomAgent",
   name |-> name, description |-> <<>>, path |-> path,
   before_agent_callbacks |-> callbacks, sub_agents |-> sub_agents]

AgentsConfig(agents) == [class |-> "AgentsConfig", agents |-> agents]

\* an object with the attributes type and config, which is what
\* _build_agent_from_agent_config reads
TypedConfig(type, config) ==
  [class |-> "SimpleNamespace", type |-> type, config |-> config]

\* isinstance(config, AgentConfig), AgentConfig the Union of the three
\* config classes
IsAgentConfig(obj) ==
  obj.class \in {"LlmAgentConfig", "CustomAgentConfig", "LoopAgentConfig"}

\* the registries after _register_builtin_types
BuiltinAgentRegistry == [LlmAgent |-> "LlmAgent", LoopAgent |-> "LoopAgent"]

BuiltinConfigRegistry ==
  [LlmAgent |-> "LlmAgentConfig", LoopAgent |-> "LoopAgentConfig"]

\* a name that is registered keeps its first class
RegisteredIfNew(registry, name, class) ==
  [n \in (DOMAIN registry) \cup {name} |->
     IF n \in DOMAIN registry THEN registry[n] ELSE class]

\* registry[name] = class
Registered(registry, name, class) ==
  [n \in (DOMAIN registry) \cup {name} |->
     IF n = name THEN class ELSE registry[n]]

\* the objects importable code references name: an agent made in Python
\* code, which is agent 1 of the heap, a callback and a tool
HelperAgent ==
  [class |-> "LlmAgent", name |-> <<"helper">>, parent_agent |-> 0,
   sub_agents |-> <<>>]

AgentRef(id) == [class |-> "agent", id |-> id]

Modules ==
  [lib_helper_agent |-> AgentRef(1),
   lib_callback |-> [class |-> "function"],
   google_adk_tools_google_search |-> [class |-> "tool"]]

\* a code name, BUILTIN_TOOLS applied, names an importable object; the
\* other names have no dot, or a module or an attribute that does not exist
BUILTIN_TOOLS == [google_search |-> "google.adk.tools.google_search"]

CodeNames ==
  {"", "simple", "lib.helper_agent", "lib.callback", "lib.missing",
   "google_search"}

HasDot(name) ==
  name \in {"lib.helper_agent", "lib.callback", "lib.missing",
            "google.adk.tools.google_search"}

ImportKey(name) ==
  IF name = "lib.helper_agent" THEN "lib_helper_agent"
  ELSE IF name = "lib.callback" THEN "lib_callback"
  ELSE IF name = "google.adk.tools.google_search"
    THEN "google_adk_tools_google_search"
  ELSE ""

\* _resolve_code_reference(code_config), code_config without args
ResolveCodeReference(code_config) ==
  IF code_config = None \/ code_config[1].name = ""
    THEN Raise("ValueError")
  ELSE
    LET name == IF code_config[1].name \in DOMAIN BUILTIN_TOOLS
                  THEN BUILTIN_TOOLS[code_config[1].name]
                  ELSE code_config[1].name
    IN  IF ~HasDot(name) THEN Raise("ValueError")
        ELSE IF ImportKey(name) \notin DOMAIN Modules THEN Raise("ValueError")
        ELSE Ok(Modules[ImportKey(name)])

\* _resolve_callbacks(callbacks_config): the first exception of a reference
RECURSIVE ResolveCallbacks(_)
ResolveCallbacks(callbacks_config) ==
  IF callbacks_config = <<>> THEN Ok(<<>>)
  ELSE
    LET first == ResolveCodeReference(Some(Head(callbacks_config)))
        rest == ResolveCallbacks(Tail(callbacks_config))
    IN  IF first.raised # "" THEN Raise(first.raised)
        ELSE IF rest.raised # "" THEN Raise(rest.raised)
        ELSE Ok(<<first.value>> \o rest.value)

\* _build_agent_kwargs(config), for the fields the configs here set
BuildAgentKwargs(config) ==
  LET name == GetAttr(config, "name")
      callbacks == GetAttr(config, "before_agent_callbacks")
  IN  IF name.raised # "" THEN Raise(name.raised)
      ELSE IF callbacks.raised # "" THEN Raise(callbacks.raised)
      ELSE IF Truthy(callbacks.value)
        THEN LET resolved == ResolveCallbacks(callbacks.value[1])
             IN  IF resolved.raised # "" THEN Raise(resolved.raised)
                 ELSE Ok([name |-> name.value,
                          before_agent_callback |-> resolved.value])
      ELSE Ok([name |-> name.value, before_agent_callback |-> <<>>])

\* _resolve_agent_class(agent_config)
ResolveAgentClass(agent_config, registry) ==
  LET agent_type == GetAttr(agent_config, "type")
  IN  IF agent_type.raised # "" THEN Raise(agent_type.raised)
      ELSE IF agent_type.value \in DOMAIN registry
        THEN Ok(registry[agent_type.value])
      ELSE IF agent_type.value = "CustomAgent"
        THEN Raise("NotImplementedError")
      ELSE Raise("ValueError")

\* the files of the working directory: what yaml.safe_load gives for each,
\* malformed when it raises
Files ==
  [empty_yaml    |-> PyNone,
   number_yaml   |-> PyInt,
   text_yaml     |-> PyStr(<<"hello">>),
   words_yaml    |-> PyStr(<<"my ", "agents">>),
   list_yaml     |-> PyList(<<PyStr(<<"a">>)>>),
   keys_yaml     |-> PyList(<<PyStr(<<"type">>), PyStr(<<"config">>)>>),
   other_yaml    |-> PyDict([name |-> PyStr(<<"root">>)]),
   scalar_yaml   |-> PyDict([agents |-> PyInt]),
   typed_yaml    |-> PyDict([type |-> PyStr(<<"Other">>),
                             config |-> PyDict([name |-> PyStr(<<"root">>)])]),
   no_agents_yaml |-> PyDict([agents |-> PyList(<<>>)]),
   extra_yaml    |-> PyDict([agents |-> PyList(<<>>), version |-> PyInt]),
   bad_agent_yaml |-> PyDict([agents |-> PyList(<<PyDict([path |-> PyStr(<<"p">>)])>>)]),
   agents_yaml   |->
     PyDict([agents |->
               PyList(<<PyDict([name |-> PyStr(<<"root">>),
                                instruction |-> PyStr(<<"i">>)]),
                        PyDict([name |-> PyStr(<<"custom">>),
                                path |-> PyStr(<<"lib.helper_agent">>)])>>)]),
   malformed_yaml |-> [class |-> "malformed"]]

Paths == (DOMAIN Files) \cup {"missing_yaml"}

\* key in data
KeyIn(data, key) ==
  IF data.class \in {"NoneType", "int"} THEN Raise("TypeError")
  ELSE IF data.class = "str"
    THEN Ok(\E i \in 1..Len(data.value) : data.value[i] = key)
  ELSE IF data.class = "list"
    THEN Ok(\E i \in 1..Len(data.items) : data.items[i] = PyStr(<<key>>))
  ELSE Ok(key \in DOMAIN data.entries)

\* data[key], key a str
GetItem(data, key) ==
  IF data.class = "dict"
    THEN IF key \in DOMAIN data.entries THEN Ok(data.entries[key])
         ELSE Raise("KeyError")
  ELSE Raise("TypeError")

\* validation of one entry of agents against the Union of the config
\* classes, each of which forbids extra fields: name and instruction make
\* an LlmAgentConfig; name and path a CustomAgentConfig; name alone a
\* LoopAgentConfig, the last two with their own agent_type if any
ValidateAgentConfig(item) ==
  IF item.class # "dict" THEN Raise("ValidationError")
  ELSE
    LET keys == DOMAIN item.entries
        typed(t) == "agent_type" \in keys => item.entries.agent_type = PyStr(<<t>>)
    IN  IF "name" \notin keys THEN Raise("ValidationError")
        ELSE IF item.entries.name.class # "str" THEN Raise("ValidationError")
        ELSE IF keys = {"name", "instruction"}
          THEN Ok(LlmAgentConfig(item.entries.name.value, None, None))
        ELSE IF keys \ {"agent_type"} = {"name", "path"} /\ typed("CustomAgent")
          THEN Ok(CustomAgentConfig(item.entries.name.value,
                                    item.entries.path.value, None, None))
        ELSE IF keys \ {"agent_type"} = {"name"} /\ typed("LoopAgent")
          THEN Ok(LoopAgentConfig(item.entries.name.value, None, None))
        ELSE Raise("ValidationError")

RECURSIVE ValidateAgentConfigs(_)
ValidateAgentConfigs(items) ==
  IF items = <<>> THEN Ok(<<>>)
  ELSE
    LET first == ValidateAgentConfig(Head(items))
        rest == ValidateAgentConfigs(Tail(items))
    IN  IF first.raised # "" THEN Raise(first.raised)
        ELSE IF rest.raised # "" THEN Raise(rest.raised)
        ELSE Ok(<<first.value>> \o rest.value)

\* AgentsConfig.model_validate(config_data), config_data a dict whose
\* agents is a list
AgentsConfigModelValidate(config_data) ==
  IF DOMAIN config_data.entries # {"agents"} THEN Raise("ValidationError")
  ELSE
    LET agents == ValidateAgentConfigs(config_data.entries.agents.items)
    IN  IF agents.raised # "" THEN Raise(agents.raised)
        ELSE Ok(AgentsConfig(agents.value))

\* the path a str names: the str has one word, or none when it is empty
PathName(words) == IF words = <<>> THEN "" ELSE words[1]

\* _load_config_from_path(config_path)
LoadConfigFromPath(config_path) ==
  \* Path of the empty string is the working directory, which exists and
  \* which open does not open
  IF config_path = "" THEN Raise("IsADirectoryError")
  ELSE IF config_path \notin DOMAIN Files THEN Raise("FileNotFoundError")
  ELSE IF Files[config_path].class = "malformed" THEN Raise("YAMLError")
  ELSE
    LET config_data == Files[config_path]
        has_agents == KeyIn(config_data, "agents")
        agents == GetItem(config_data, "agents")
        has_type == KeyIn(config_data, "type")
        has_config == KeyIn(config_data, "config")
    IN  IF has_agents.raised # "" THEN Raise(has_agents.raised)
        ELSE IF has_agents.value /\ agents.raised # "" THEN Raise(agents.raised)
        ELSE IF has_agents.value /\ agents.value.class = "list"
          THEN AgentsConfigModelValidate(config_data)
        ELSE IF has_type.raised # "" THEN Raise(has_type.raised)
        ELSE IF has_type.value /\ has_config.raised # ""
          THEN Raise(has_config.raised)
        \* AgentConfig is a typing.Union, which has no model_validate
        ELSE IF has_type.value /\ has_config.value THEN Raise("AttributeError")
        ELSE Raise("ValueError")

\* the outcome of a call that builds agents: the exception, the agent
\* returned (a reference into the heap), and the heap as the call leaves it
Built(raised_, value, heap) ==
  [raised |-> raised_, value |-> value, heap |-> heap]

\* agent_class(**kwargs): a new agent of the class, with the name
NewAgent(agent_class, kwargs) ==
  [class |-> agent_class, name |-> kwargs.name, parent_agent |-> 0,
   sub_agents |-> <<>>]

\* sub_agent.parent_agent = agent; agent.sub_agents.append(sub_agent)
Attach(heap, agent_id, sub_agent) ==
  LET parented ==
        IF sub_agent.class = "agent"
          THEN [heap EXCEPT ![sub_agent.id].parent_agent = agent_id]
          ELSE heap
  IN  [parented EXCEPT ![agent_id].sub_agents = Append(@, sub_agent)]

RECURSIVE FromConfigOutcome(_, _, _)
RECURSIVE BuildAgentFromAgentConfig(_, _, _)
RECURSIVE BuildSubAgents(_, _, _, _)

\* config looked at before code
BuildSubAgentConfigFirst(sub_config, heap, registry) ==
  IF Truthy(sub_config.config)
    THEN FromConfigOutcome(PyStr(sub_config.config[1]), heap, registry)
  ELSE IF sub_config.code # None
    THEN LET resolved == ResolveCodeReference(sub_config.code)
         IN  Built(resolved.raised, resolved.value, heap)
  ELSE Built("ValueError", None, heap)

\* _build_sub_agent(sub_config)
BuildSubAgent(sub_config, heap, registry) ==
  IF sub_config.code # None
    THEN LET resolved == ResolveCodeReference(sub_config.code)
         IN  Built(resolved.raised, resolved.value, heap)
  ELSE IF Truthy(sub_config.config)
    THEN FromConfigOutcome(PyStr(sub_config.config[1]), heap, registry)
  ELSE Built("ValueError", None, heap)

\* the for loop of _build_agent_from_agent_config
BuildSubAgents(sub_configs, agent_id, heap, registry) ==
  IF sub_configs = <<>> THEN Built("", AgentRef(agent_id), heap)
  ELSE
    LET sub_agent == BuildSubAgent(Head(sub_configs), heap, registry)
    IN  IF sub_agent.raised # ""
          THEN Built(sub_agent.raised, None, sub_agent.heap)
        ELSE BuildSubAgents(Tail(sub_configs), agent_id,
                            Attach(sub_agent.heap, agent_id, sub_agent.value),
                            registry)

\* _build_agent_from_agent_config(agent_config)
BuildAgentFromAgentConfig(agent_config, heap, registry) ==
  LET config == GetAttr(agent_config, "config")
      agent_class == ResolveAgentClass(agent_config, registry)
      kwargs == BuildAgentKwargs(config.value)
      agent_id == Len(heap) + 1
      sub_agents == GetAttr(config.value, "sub_agents")
  IN  IF config.raised # "" THEN Built(config.raised, None, heap)
      ELSE IF agent_class.raised # "" THEN Built(agent_class.raised, None, heap)
      ELSE IF kwargs.raised # "" THEN Built(kwargs.raised, None, heap)
      ELSE
        LET constructed == Append(heap, NewAgent(agent_class.value, kwargs.value))
        IN  IF sub_agents.raised # ""
              THEN Built(sub_agents.raised, None, constructed)
            ELSE IF Truthy(sub_agents.value)
              THEN BuildSubAgents(sub_agents.value[1], agent_id, constructed,
                                  registry)
            ELSE Built("", AgentRef(agent_id), constructed)

\* from_config(config)
FromConfigOutcome(config, heap, registry) ==
  LET loaded == IF config.class = "str"
                  THEN LoadConfigFromPath(PathName(config.value))
                  ELSE Ok(config)
  IN  IF loaded.raised # "" THEN Built(loaded.raised, None, heap)
      ELSE IF loaded.value.class = "AgentsConfig"
        THEN IF loaded.value.agents = <<>>
               THEN Built("ValueError", None, heap)
             ELSE BuildAgentFromAgentConfig(loaded.value.agents[1], heap,
                                            registry)
      ELSE IF IsAgentConfig(loaded.value)
        THEN BuildAgentFromAgentConfig(loaded.value, heap, registry)
      ELSE Built("ValueError", None, heap)

\* the factory after import of its module, no call made
NoFactory ==
  /\ agent_registry = BuiltinAgentRegistry
  /\ config_registry = BuiltinConfigRegistry
  /\ registrations = 0
  /\ registered = None
  /\ factory_called = "none"
  /\ factory_config = PyNone
  /\ factory_raised = ""
  /\ factory_result = None
  /\ agent_heap = <<HelperAgent>>

----------------------------------------------------------------------------
(***************************************************************************)
(* The release-notes agent: get_commits pages through the commits of the   *)
(* repository, get_file_content fetches the changelog.  The server is the  *)
(* environment: it answers every request with a response or the request    *)
(* raises an exception of the requests library.                            *)
(***************************************************************************)
MaxPages == 3

MaxCommitsOnPage == 2

\* The classes an exception of the requests library is an instance of.
ExceptionBases ==
  [HTTPError        |-> {"HTTPError", "RequestException"},
   ConnectionError  |-> {"ConnectionError", "RequestException"},
   ConnectTimeout   |-> {"ConnectTimeout", "ConnectionError", "Timeout",
                         "RequestException"},
   ReadTimeout      |-> {"ReadTimeout", "Timeout", "RequestException"},
   TooManyRedirects |-> {"TooManyRedirects", "RequestException"}]

\* What a request leads to.  exception is empty for a response with a 2xx
\* status, HTTPError when raise_for_status raised, and another class when
\* requests.get raised.  body is the decoded JSON, link the Link header
\* (absent, or the rel values of its entries), remaining the
\* X-RateLimit-Remaining header.
Response(exception, status, body, link, remaining) ==
  [exception |-> exception, status |-> status, body |-> body, link |-> link,
   remaining |-> remaining]

PageResponses(p) ==
  {Response("", 200, [k \in 1..n |-> [page |-> p, index |-> k]], link, None) :
     n \in 0..MaxCommitsOnPage,
     link \in {None, Some(<<"next", "last">>), Some(<<"prev", "first">>)}}
  \cup {Response("HTTPError", status, <<>>, None, remaining) :
          status \in {403, 500},
          remaining \in {None, Some(<<"0">>), Some(<<"5", "9">>)}}
  \cup {Response(e, 0, <<>>, None, None) :
          e \in {"ConnectionError", "ConnectTimeout", "ReadTimeout",
                 "TooManyRedirects"}}

HasRelNext(link_header) ==
  \E i \in 1..Len(link_header) : link_header[i] = "next"

\* The try block of the loop body once the response has arrived.
CommitsOnPage(p, commits, response) ==
  LET Returned(list) ==
        [phase |-> "returned", page |-> p, all_commits |-> list,
         result |-> Some(list), printed |-> <<>>]
      extended == commits \o response.body
  IN  IF response.body = <<>>
        THEN Returned(commits)
        ELSE IF response.link # None /\ HasRelNext(response.link[1])
          THEN [phase |-> "running", page |-> p + 1, all_commits |-> extended,
                result |-> None, printed |-> <<>>]
          ELSE Returned(extended)

GetCommitsIterationKeepingCollected(p, commits, response) ==
  IF response.exception = ""
    THEN CommitsOnPage(p, commits, response)
    ELSE [phase |-> "returned", page |-> p, all_commits |-> commits,
          result |-> Some(commits), printed |-> <<>>]

GetCommitsIterationIgnoringLink(p, commits, response) ==
  IF response.exception # "" \/ response.body = <<>>
    THEN [phase |-> "returned", page |-> p, all_commits |-> commits,
          result |-> Some(IF response.exception # "" THEN <<>> ELSE commits),
          printed |-> <<>>]
    ELSE [phase |-> "running", page |-> p + 1,
          all_commits |-> commits \o response.body, result |-> None,
          printed |-> <<>>]

\* One pass through the body of the while loop, and the return it leads to.
GetCommitsIteration(p, commits, response) ==
  LET ReturnedEmpty(output) ==
        [phase |-> "returned", page |-> p, all_commits |-> commits,
         result |-> Some(<<>>), printed |-> output]
      IsInstance(class) == class \in ExceptionBases[response.exception]
  IN  IF response.exception = ""
        THEN CommitsOnPage(p, commits, response)
        ELSE IF IsInstance("HTTPError")
          THEN ReturnedEmpty(
                 <<<<"HTTP Error", response.status>>>>
                 \o (IF /\ response.status = 403
                        /\ response.remaining # None
                        /\ response.remaining[1] = <<"0">>
                       THEN <<<<"Rate limit exceeded">>>>
                       ELSE <<>>))
        ELSE IF IsInstance("ConnectionError")
          THEN ReturnedEmpty(<<<<"Connection Error">>>>)
        ELSE IF IsInstance("Timeout")
          THEN ReturnedEmpty(<<<<"Timeout Error">>>>)
        ELSE ReturnedEmpty(<<<<"An error occurred">>>>)

\* The base64 alphabet, on the characters of the model.
B64Index(c) ==
  CASE c = "I" -> 8
    [] c = "J" -> 9
    [] c = "Q" -> 16
    [] c = "W" -> 22
    [] c = "Y" -> 24
    [] c = "j" -> 35
    [] c = "w" -> 48
    [] c = "/" -> 63
    [] OTHER -> 64

\* base64.b64decode: binascii.a2b_base64 without strict mode, from
\* character i on.
RECURSIVE A2bBase64(_, _, _, _, _, _)
A2bBase64(data, i, quad_pos, leftchar, pads, bin_data) ==
  IF i > Len(data)
    THEN IF quad_pos # 0 THEN Raise("binascii.Error") ELSE Ok(bin_data)
    ELSE
      IF data[i] = "="
        THEN IF quad_pos >= 2 /\ quad_pos + pads + 1 >= 4
               THEN Ok(bin_data)
               ELSE A2bBase64(data, i + 1, quad_pos, leftchar,
                              IF quad_pos >= 2 THEN pads + 1 ELSE pads,
                              bin_data)
        ELSE LET this_ch == B64Index(data[i])
             IN  IF this_ch >= 64
                   THEN A2bBase64(data, i + 1, quad_pos, leftchar, pads,
                                  bin_data)
                   ELSE CASE quad_pos = 0 ->
                               A2bBase64(data, i + 1, 1, this_ch, 0, bin_data)
                          [] quad_pos = 1 ->
                               A2bBase64(data, i + 1, 2, this_ch % 16, 0,
                                 Append(bin_data,
                                        (leftchar * 4 + this_ch \div 16) % 256))
                          [] quad_pos = 2 ->
                               A2bBase64(data, i + 1, 3, this_ch % 4, 0,
                                 Append(bin_data,
                                        (leftchar * 16 + this_ch \div 4) % 256))
                          [] quad_pos = 3 ->
                               A2bBase64(data, i + 1, 0, 0, 0,
                                 Append(bin_data,
                                        (leftchar * 64 + this_ch) % 256))

\* The character of an ASCII byte, on the characters of the model.
Chr(byte) ==
  CASE byte = 97 -> "a"
    [] byte = 98 -> "b"
    [] byte = 99 -> "c"

\* bytes.decode of UTF-8: an ASCII byte is its character, and the bytes
\* 0xC0, 0xC1 and 0xF5 to 0xFF occur in no UTF-8 text.  The files of the
\* model hold no other byte.
Utf8Decode(bytes) ==
  IF \E i \in 1..Len(bytes) : bytes[i] \in {192, 193} \cup (245..255)
    THEN Raise("UnicodeDecodeError")
    ELSE Ok([i \in 1..Len(bytes) |-> Chr(bytes[i])])

\* The answers to the contents request.  The body is the JSON object of the
\* file, where a missing key is None; the content is base64 text.
FileResponses ==
  {Response("", 200, [content |-> content, sha |-> sha], None, None) :
     content \in {None, Some(<<>>), Some(<<"Y", "Q", "=", "=">>),
                  Some(<<"Y", "W", "J", "j", "\n">>),
                  Some(<<"Y", "W", "I">>), Some(<<"/", "w", "=", "=">>)},
     sha \in {None, Some(<<"s", "1">>)}}
  \cup {Response("HTTPError", status, <<>>, None, None) :
          status \in {404, 500}}
  \cup {Response(e, 0, <<>>, None, None) :
          e \in {"ConnectionError", "ConnectTimeout", "ReadTimeout",
                 "TooManyRedirects"}}

\* The returned pair holds None or Some(value) in each place.
GetFileContent(response) ==
  LET Raised(exception) ==
        [raised |-> exception, value |-> <<>>, printed |-> <<>>]
      Returned(content, sha, output) ==
        [raised |-> "", value |-> <<content, sha>>, printed |-> output]
      file_data == response.body
      bytes == A2bBase64(file_data.content[1], 1, 0, 0, 0, <<>>)
      content_decoded == Utf8Decode(bytes.value)
  IN  IF response.exception = ""
        THEN IF file_data.content = None THEN Raised("KeyError")
             ELSE IF bytes.raised # "" THEN Raised(bytes.raised)
             ELSE IF content_decoded.raised # ""
               THEN Raised(content_decoded.raised)
             ELSE IF file_data.sha = None THEN Raised("KeyError")
             ELSE Returned(Some(content_decoded.value), file_data.sha,
                           <<>>)
        ELSE IF "HTTPError" \in ExceptionBases[response.exception]
          THEN IF response.status = 404
                 THEN Returned(Some(<<>>), None, <<<<"File not found">>>>)
                 ELSE Returned(Some(<<>>), None,
                               <<<<"Error fetching file", response.status>>>>)
        ELSE Returned(Some(<<>>), None, <<<<"Network or request error">>>>)

NoReleaseNotes ==
  /\ commits_phase = "idle"
  /\ page = 0
  /\ all_commits = <<>>
  /\ page_responses = <<>>
  /\ commits_result = None
  /\ file_response = None
  /\ file_outcome = None
  /\ printed = <<>>

----------------------------------------------------------------------------
(* Scoring one judge answer                                                *)

NoAggregation ==
  /\ threshold = [num |-> 1, den |-> 2]
  /\ per_invocation_results = <<>>
  /\ aggregated = FALSE
  /\ raised = ""
  /\ evaluation_result = None

InitScore ==
  /\ judge_answer \in JudgeAnswers
  /\ response_text = Join(judge_answer)
  /\ called = "none"
  /\ label = None
  /\ match_end = 0
  /\ rater_label = None
  /\ score = None
  /\ score_raised = ""
  /\ logged = <<>>
  /\ judge_responses = <<>>
  /\ NoAggregation
  /\ NoPrompt
  /\ NoReleaseNotes
  /\ NoFactory

\* label = _extract_validity_label(response_text), as the unit tests call it
ExtractValidityLabelCall ==
  /\ called = "none"
  /\ called' = "extract"
  /\ label' = ExtractValidityLabel(response_text)
  /\ match_end' = LET m == ExtractMatch(response_text)
                  IN  IF m = None THEN 0 ELSE m[1].end
  /\ UNCHANGED <<judge_answer, response_text, rater_label, score,
                 score_raised, logged, judge_responses>>
  /\ UNCHANGED aggVars
  /\ UNCHANGED promptVars
  /\ UNCHANGED releaseVars
  /\ UNCHANGED factoryVars

\* score = convert_auto_rater_response_to_score(llm_response), the response
\* holding the judge answer
ConvertAutoRaterResponseToScore ==
  /\ called = "none"
  /\ called' = "convert"
  /\ LET outcome == ConvertOutcome(ContentParts(judge_answer))
     IN  /\ rater_label' = outcome.label
         /\ score' = outcome.score
         /\ score_raised' = outcome.raised
         /\ logged' = outcome.logged
  /\ UNCHANGED <<judge_answer, response_text, label, match_end,
                 judge_responses>>
  /\ UNCHANGED aggVars
  /\ UNCHANGED promptVars
  /\ UNCHANGED releaseVars
  /\ UNCHANGED factoryVars

NextScore == ExtractValidityLabelCall \/ ConvertAutoRaterResponseToScore

SpecScore == InitScore /\ [][NextScore]_vars

----------------------------------------------------------------------------
(* Properties of label extraction and score conversion (SpecScore)         *)

Letters ==
  { "a", "b", "c", "d", "e", "f", "g", "h", "i", "j", "k", "l", "m", "n", "o",
    "p", "q", "r", "s", "t", "u", "v", "w", "x", "y", "z", "A", "B", "C", "D",
    "E", "F", "G", "H", "I", "J", "K", "L", "M", "N", "O", "P", "Q", "R", "S",
    "T", "U", "V", "W", "X", "Y", "Z" }

Contains(text, literal) == \E i \in 1..Len(text) : IsLiteralAt(text, i, literal)

\* the key names as JSON strings, quotes included, colon excluded
ValidKeyName == KeyStem \o WordValid \o <<"\"">>

InvalidKeyName == KeyStem \o WordInvalid \o <<"\"">>

IsShaped == Len(judge_answer) = 6 /\ judge_answer[2] \in Keys

\* the answer has one of the two keys, then the value w in one of the three
\* ways of writing it
WrittenAs(w) ==
  /\ IsShaped
  /\ judge_answer[2] \in {ValidKeyLiteral, InvalidKeyLiteral}
  /\ judge_answer[4] \in ValueForms(w)

\* after the value come optional whitespace and a comma, newline or brace
ValueIsTerminated ==
  LET after == judge_answer[5] \o judge_answer[6]
  IN  \E i \in 1..Len(after) :
        /\ IsTerminator(after[i])
        /\ \A j \in 1..(i - 1) : IsSpace(after[j])

\* C6 as stated: for every judge text in which one of the two keys is
\* followed by the value written as a quoted string, as a one-element list
\* or as a list with a newline before the closing quote, the extracted label
\* is the bare word of the value.
C6_LabelOfEveryWrittenValue ==
  \A w \in {WordValid, WordInvalid} :
    (called = "extract" /\ WrittenAs(w)) => label = Some(w)

\* C6 amended: the same, for the texts in which the value is followed (after
\* optional whitespace) by a comma, a newline or a closing brace, or holds
\* the newline itself before its closing quote; a quoted string or a
\* one-element list that ends the text gives no label, or the empty label
\* when a newline stands between the key and the value.
C6_LabelOfTerminatedValue ==
  \A w \in {WordValid, WordInvalid} :
    /\ ( /\ called = "extract"
         /\ WrittenAs(w)
         /\ ValueIsTerminated \/ judge_answer[4] = NewlineListValue(w) )
       => label = Some(w)
    /\ ( /\ called = "extract"
         /\ WrittenAs(w)
         /\ judge_answer[4] \in {QuotedValue(w), ListValue(w)}
         /\ judge_answer[5] \o judge_answer[6] = <<>> )
       => label = IF \E i \in 1..Len(judge_answer[3]) :
                        judge_answer[3][i] = "\n"
                    THEN Some(<<>>)
                    ELSE None

C6_Witness ==
  /\ called = "extract"
  /\ WrittenAs(WordInvalid)
  /\ judge_answer[2] = InvalidKeyLiteral
  /\ judge_answer[3] = <<"\n", " ", " ">>
  /\ judge_answer[4] = NewlineListValue(WordInvalid)
  /\ judge_answer[5] = <<",">>
  /\ label = Some(WordInvalid)

\* C7: the score is 1 exactly for the label valid, 0 exactly for the label
\* invalid, and null for every other label and for no label.
C7_ScoreMapping ==
  called = "convert" =>
    /\ score \in {Some(1), Some(0), None}
    /\ score = Some(1) <=> rater_label = Some(WordValid)
    /\ score = Some(0) <=> rater_label = Some(WordInvalid)

C7_Witness ==
  /\ called = "convert"
  /\ rater_label = Some(<<"V">> \o Tail(WordValid))
  /\ score = None

\* C8: a text with the invalid key and without the valid key has its label
\* taken from the match of the invalid key's pattern.
C8_FallbackToInvalidKey ==
  ( /\ called = "extract"
    /\ Contains(response_text, InvalidKeyName)
    /\ ~Contains(response_text, ValidKeyName) )
  => LET m == ReSearch(InvalidKeyLiteral, response_text)
     IN  label = IF m = None THEN None ELSE Some(m[1].group)

C8_Witness ==
  /\ called = "extract"
  /\ IsShaped
  /\ judge_answer[2] = InvalidKeyLiteral
  /\ judge_answer[4] = QuotedValue(WordInvalid)
  /\ ~Contains(response_text, ValidKeyName)
  /\ label = Some(WordInvalid)

\* C9: a text that holds neither key name gives a null label and a null
\* score; a key that only starts with the expected name counts as neither.
C9_NeitherKeyGivesNull ==
  ( /\ ~Contains(response_text, ValidKeyName)
    /\ ~Contains(response_text, InvalidKeyName) )
  => /\ called = "extract" => label = None
     /\ called = "convert" => (rater_label = None /\ score = None)

C9_Witness ==
  /\ called = "convert"
  /\ IsShaped
  /\ judge_answer[2] = ValidOrInvalidKey
  /\ judge_answer[4] = QuotedValue(WordValid)
  /\ judge_answer[5] = <<",">>
  /\ score = None

MatchIsTerminated ==
  match_end \in 1..Len(response_text) /\ IsTerminator(response_text[match_end])

\* C10 as stated: every non-null label is made of letters only and its match
\* ends with a comma, a newline or a closing brace.
C10_LabelIsLettersOnly ==
  (called = "extract" /\ label # None) =>
    /\ \A i \in 1..Len(label[1]) : label[1][i] \in Letters
    /\ MatchIsTerminated

\* C10 amended: every non-null label is free of double quotes, carets,
\* closing brackets and whitespace (it may be empty and may hold digits,
\* opening brackets, commas or braces), and its match ends with a comma, a
\* newline or a closing brace.
C10_LabelExcludedCharacters ==
  (called = "extract" /\ label # None) =>
    /\ \A i \in 1..Len(label[1]) :
         ~(label[1][i] \in {"\"", "^", "]"} \/ IsSpace(label[1][i]))
    /\ MatchIsTerminated

C10_Witness ==
  /\ called = "extract"
  /\ label = Some(<<"a", "[", "b">>)
  /\ MatchIsTerminated

C12_NullScoreIsLogged ==
  (called = "convert" /\ score = None) => Len(logged) > 0

----------------------------------------------------------------------------
(* Aggregation of per-invocation results                                   *)

MaxResults == 3

\* EvalStatus
EvalStatuses == {"PASSED", "FAILED", "NOT_EVALUATED"}

\* PerInvocationResult.score: Optional float
Scores == {None, Some(0), Some(1), Some(100)}

\* PerInvocationResult, its two invocations left out
PerInvocationResults == [score : Scores, eval_status : EvalStatuses]

\* EvalMetric.threshold: 0.5 and 0.8
Thresholds == {[num |-> 1, den |-> 2], [num |-> 4, den |-> 5]}

\* get_eval_status(score, threshold), for a quotient with a positive den
GetEvalStatus(overall_score, thr) ==
  IF overall_score.num * thr.den >= thr.num * overall_score.den
    THEN "PASSED"
    ELSE "FAILED"

\* the for loop of aggregate_invocation_results
RECURSIVE AggregateLoop(_, _, _)
AggregateLoop(results, num_valid, num_evaluated) ==
  IF results = <<>>
    THEN [num_valid |-> num_valid, num_evaluated |-> num_evaluated]
    ELSE LET result == Head(results)
         IN  IF result.score = None \/ result.eval_status = "NOT_EVALUATED"
               THEN AggregateLoop(Tail(results), num_valid, num_evaluated)
               ELSE AggregateLoop(Tail(results), num_valid + result.score[1],
                                  num_evaluated + 1)

Returned(result) == [raised |-> "", result |-> Some(result)]

Raised(exception) == [raised |-> exception, result |-> None]

\* counts every result with a score, whatever its status
RECURSIVE AggregateLoopIgnoringStatus(_, _, _)
AggregateLoopIgnoringStatus(results, num_valid, num_evaluated) ==
  IF results = <<>>
    THEN [num_valid |-> num_valid, num_evaluated |-> num_evaluated]
    ELSE LET result == Head(results)
         IN  IF result.score = None
               THEN AggregateLoopIgnoringStatus(Tail(results), num_valid,
                                                num_evaluated)
               ELSE AggregateLoopIgnoringStatus(Tail(results),
                                                num_valid + result.score[1],
                                                num_evaluated + 1)

AggregateIgnoringStatus(results, thr) ==
  LET c == AggregateLoopIgnoringStatus(results, 0, 0)
      overall_score == [num |-> c.num_valid, den |-> c.num_evaluated]
  IN  IF c.num_evaluated = 0 THEN Raised("ZeroDivisionError")
      ELSE Returned([overall_score          |-> overall_score,
                     overall_eval_status    |-> GetEvalStatus(overall_score, thr),
                     per_invocation_results |-> results])

\* hands the sum, not the quotient, to get_eval_status
AggregateStatusOfSum(results, thr) ==
  LET c == AggregateLoop(results, 0, 0)
      overall_score == [num |-> c.num_valid, den |-> c.num_evaluated]
  IN  IF c.num_evaluated = 0 THEN Raised("ZeroDivisionError")
      ELSE Returned([overall_score          |-> overall_score,
                     overall_eval_status    |->
                       GetEvalStatus([num |-> c.num_valid, den |-> 1], thr),
                     per_invocation_results |-> results])

\* substitutes a score of 0 when nothing was evaluated
AggregateDefaultZero(results, thr) ==
  LET c == AggregateLoop(results, 0, 0)
      overall_score ==
        IF c.num_evaluated = 0 THEN [num |-> 0, den |-> 1]
        ELSE [num |-> c.num_valid, den |-> c.num_evaluated]
  IN  Returned([overall_score          |-> overall_score,
                overall_eval_status    |-> GetEvalStatus(overall_score, thr),
                per_invocation_results |-> results])

\* divides by the length of the list
AggregateOverAll(results, thr) ==
  LET c == AggregateLoop(results, 0, 0)
      overall_score == [num |-> c.num_valid, den |-> Len(results)]
  IN  IF Len(results) = 0 THEN Raised("ZeroDivisionError")
      ELSE Returned([overall_score          |-> overall_score,
                     overall_eval_status    |-> GetEvalStatus(overall_score, thr),
                     per_invocation_results |-> results])

\* returns only the results that were counted
AggregateKeepingEvaluated(results, thr) ==
  LET c == AggregateLoop(results, 0, 0)
      overall_score == [num |-> c.num_valid, den |-> c.num_evaluated]
      counted(r) == ~(r.score = None \/ r.eval_status = "NOT_EVALUATED")
  IN  IF c.num_evaluated = 0 THEN Raised("ZeroDivisionError")
      ELSE Returned([overall_score          |-> overall_score,
                     overall_eval_status    |-> GetEvalStatus(overall_score, thr),
                     per_invocation_results |-> SelectSeq(results, counted)])

\* aggregate_invocation_results: what it raises or returns.  The quotient
\* num_valid / num_evaluated raises ZeroDivisionError for a zero divisor.
AggregateInvocationResults(results, thr) ==
  LET c == AggregateLoop(results, 0, 0)
      overall_score == [num |-> c.num_valid, den |-> c.num_evaluated]
  IN  IF c.num_evaluated = 0 THEN Raised("ZeroDivisionError")
      ELSE Returned([overall_score          |-> overall_score,
                     overall_eval_status    |-> GetEvalStatus(overall_score, thr),
                     per_invocation_results |-> results])

NoScoring ==
  /\ judge_answer = <<>>
  /\ response_text = <<>>
  /\ called = "none"
  /\ label = None
  /\ match_end = 0
  /\ rater_label = None
  /\ score = None
  /\ score_raised = ""
  /\ logged = <<>>
  /\ judge_responses = <<>>

InitAggregate ==
  /\ threshold \in Thresholds
  /\ per_invocation_results = <<>>
  /\ aggregated = FALSE
  /\ raised = ""
  /\ evaluation_result = None
  /\ NoScoring
  /\ NoPrompt
  /\ NoReleaseNotes
  /\ NoFactory

\* the caller puts one more PerInvocationResult on its list
AppendPerInvocationResult ==
  /\ ~aggregated
  /\ Len(per_invocation_results) < MaxResults
  /\ \E result \in PerInvocationResults :
       per_invocation_results' = Append(per_invocation_results, result)
  /\ UNCHANGED <<threshold, aggregated, raised, evaluation_result>>
  /\ UNCHANGED scoreVars
  /\ UNCHANGED promptVars
  /\ UNCHANGED releaseVars
  /\ UNCHANGED factoryVars

\* evaluator.aggregate_invocation_results(per_invocation_results)
AggregateInvocationResultsCall ==
  /\ ~aggregated
  /\ aggregated' = TRUE
  /\ LET outcome == AggregateInvocationResults(per_invocation_results, threshold)
     IN  /\ raised' = outcome.raised
         /\ evaluation_result' = outcome.result
  /\ UNCHANGED <<threshold, per_invocation_results>>
  /\ UNCHANGED scoreVars
  /\ UNCHANGED promptVars
  /\ UNCHANGED releaseVars
  /\ UNCHANGED factoryVars

NextAggregate == AppendPerInvocationResult \/ AggregateInvocationResultsCall

SpecAggregate == InitAggregate /\ [][NextAggregate]_vars

----------------------------------------------------------------------------
(* Properties of aggregation (SpecAggregate)                               *)

\* a result is evaluated iff it has a score and its status is not
\* NOT_EVALUATED
IsEvaluated(result) ==
  result.score # None /\ result.eval_status # "NOT_EVALUATED"

EvaluatedResults == SelectSeq(per_invocation_results, IsEvaluated)

RECURSIVE SumOfScores(_)
SumOfScores(results) ==
  IF results = <<>> THEN 0
  ELSE Head(results).score[1] + SumOfScores(Tail(results))

HasReturned == aggregated /\ evaluation_result # None

\* C1: with at least one evaluated result, overall_score is the sum of the
\* scores of the evaluated results over their number; the other results add
\* to neither.
C1_OverallScoreIsMeanOfEvaluated ==
  (aggregated /\ Len(EvaluatedResults) > 0) =>
    /\ evaluation_result # None
    /\ evaluation_result[1].overall_score.den > 0
    /\ evaluation_result[1].overall_score.num * Len(EvaluatedResults)
         = SumOfScores(EvaluatedResults) * evaluation_result[1].overall_score.den

\* scores 1.0 and 0.0 evaluated, a NOT_EVALUATED result with score 100.0
\* skipped: the overall score is 1/2
C1_Witness ==
  /\ HasReturned
  /\ per_invocation_results =
       << [score |-> Some(1), eval_status |-> "PASSED"],
          [score |-> Some(0), eval_status |-> "FAILED"],
          [score |-> Some(100), eval_status |-> "NOT_EVALUATED"] >>
  /\ evaluation_result[1].overall_score = [num |-> 1, den |-> 2]

\* C2: the overall status is PASSED when overall_score >= threshold and
\* FAILED otherwise; a score equal to the threshold gives PASSED.
C2_StatusFromThreshold ==
  HasReturned =>
    LET r == evaluation_result[1]
    IN  /\ r.overall_eval_status \in {"PASSED", "FAILED"}
        /\ r.overall_eval_status = "PASSED"
             <=> r.overall_score.num * threshold.den
                   >= threshold.num * r.overall_score.den

\* a score of 1/2 against the threshold 1/2 is PASSED
C2_Witness ==
  /\ HasReturned
  /\ threshold = [num |-> 1, den |-> 2]
  /\ Len(EvaluatedResults) = 2
  /\ SumOfScores(EvaluatedResults) = 1
  /\ evaluation_result[1].overall_eval_status = "PASSED"

\* C3: with no evaluated result the call raises ZeroDivisionError and
\* returns no EvaluationResult.
C3_ZeroEvaluatedRaises ==
  (aggregated /\ Len(EvaluatedResults) = 0) =>
    (raised = "ZeroDivisionError" /\ evaluation_result = None)

C3_Witness ==
  /\ aggregated
  /\ per_invocation_results =
       << [score |-> None, eval_status |-> "PASSED"],
          [score |-> Some(100), eval_status |-> "NOT_EVALUATED"] >>
  /\ raised = "ZeroDivisionError"
  /\ evaluation_result = None

InUnitInterval(q) == 0 <= q.num /\ q.num <= q.den

\* C4 as stated: every returned overall_score lies in [0, 1].
C4_OverallScoreInUnitInterval ==
  HasReturned => InUnitInterval(evaluation_result[1].overall_score)

\* C4 amended: every returned overall_score lies in [0, 1] when the score of
\* every evaluated result does.
C4_UnitScoresGiveUnitOverallScore ==
  ( /\ HasReturned
    /\ \A i \in 1..Len(EvaluatedResults) :
         EvaluatedResults[i].score \in {Some(0), Some(1)} )
  => InUnitInterval(evaluation_result[1].overall_score)

C4_Witness ==
  /\ HasReturned
  /\ per_invocation_results =
       << [score |-> Some(1), eval_status |-> "PASSED"],
          [score |-> Some(100), eval_status |-> "NOT_EVALUATED"],
          [score |-> Some(0), eval_status |-> "PASSED"] >>
  /\ evaluation_result[1].overall_score = [num |-> 1, den |-> 2]

\* C5: the returned per_invocation_results is the input list, skipped
\* results included, and the call changes no result of the list.
C5_ResultsPassedThrough ==
  [][ (~aggregated /\ aggregated') =>
        /\ per_invocation_results' = per_invocation_results
        /\ evaluation_result' # None =>
             evaluation_result'[1].per_invocation_results
               = per_invocation_results ]_vars

C5_Witness ==
  /\ HasReturned
  /\ Len(EvaluatedResults) < Len(per_invocation_results)
  /\ evaluation_result[1].per_invocation_results = per_invocation_results

----------------------------------------------------------------------------
(* An evaluation run: every sample's judge answer is scored, the results   *)
(* are aggregated                                                          *)

MaxSamples == 3

RunAnswerValid ==
  <<<<"{", "\n", " ">>, ValidKeyLiteral, <<" ">>, QuotedValue(WordValid),
    <<",">>, <<"\n", "}">>>>

RunAnswerInvalid ==
  <<<<"{", "\n", " ">>, ValidKeyLiteral, <<" ">>, QuotedValue(WordInvalid),
    <<",">>, <<"\n", "}">>>>

\* no key, a label in another letter case, a value that ends the text, no
\* text at all
RunAnswersBad ==
  { <<<<>>, ValidOrInvalidKey, <<" ">>, QuotedValue(WordValid), <<",">>, <<>>>>,
    <<<<>>, ValidKeyLiteral, <<" ">>, QuotedValue(<<"V">> \o Tail(WordValid)),
      <<",">>, <<>>>>,
    <<<<>>, ValidKeyLiteral, <<" ">>, QuotedValue(WordValid), <<"\n">>, <<>>>>,
    <<>> }

RunAnswers == {RunAnswerValid, RunAnswerInvalid} \cup RunAnswersBad

\* a sample scored without a score is written down as FAILED
ResultOfSampleNullFails(sample_score, thr) ==
  [score       |-> sample_score,
   eval_status |-> IF sample_score = None THEN "FAILED"
                   ELSE GetEvalStatus([num |-> sample_score[1], den |-> 1], thr)]

\* the PerInvocationResult of a sample: PASSED or FAILED when it was scored,
\* NOT_EVALUATED when it was not
ResultOfSample(sample_score, thr) ==
  [score       |-> sample_score,
   eval_status |-> IF sample_score = None THEN "NOT_EVALUATED"
                   ELSE GetEvalStatus([num |-> sample_score[1], den |-> 1], thr)]

InitRun == InitAggregate

\* one sample: the judge answers, the answer is converted to a score and
\* the sample's result is put on the list
ScoreSample ==
  /\ ~aggregated
  /\ Len(judge_responses) < MaxSamples
  /\ \E answer \in RunAnswers :
       LET outcome == ConvertOutcome(ContentParts(answer))
       IN  /\ judge_answer' = answer
           /\ response_text' = Join(answer)
           /\ called' = "convert"
           /\ rater_label' = outcome.label
           /\ score' = outcome.score
           /\ score_raised' = outcome.raised
           /\ logged' = outcome.logged
           /\ judge_responses' = Append(judge_responses, answer)
           /\ IF outcome.raised = ""
                THEN /\ per_invocation_results' =
                          Append(per_invocation_results,
                                 ResultOfSample(outcome.score, threshold))
                     /\ UNCHANGED <<aggregated, raised, evaluation_result>>
                ELSE /\ aggregated' = TRUE
                     /\ raised' = outcome.raised
                     /\ UNCHANGED <<per_invocation_results, evaluation_result>>
  /\ UNCHANGED <<label, match_end, threshold>>
  /\ UNCHANGED promptVars
  /\ UNCHANGED releaseVars
  /\ UNCHANGED factoryVars

NextRun == ScoreSample \/ AggregateInvocationResultsCall

SpecRun == InitRun /\ [][NextRun]_vars

\* the score the answer of a sample stands for
RECURSIVE IntendedScores(_)
IntendedScores(answers) ==
  IF answers = <<>> THEN <<>>
  ELSE LET a == Head(answers)
       IN  <<IF a = RunAnswerValid THEN Some(1)
             ELSE IF a = RunAnswerInvalid THEN Some(0)
             ELSE None>> \o IntendedScores(Tail(answers))

RECURSIVE SumOfSome(_)
SumOfSome(scores) ==
  IF scores = <<>> THEN 0
  ELSE (IF Head(scores) = None THEN 0 ELSE Head(scores)[1])
         + SumOfSome(Tail(scores))

CountOfSome(scores) ==
  Cardinality({i \in 1..Len(scores) : scores[i] # None})

\* C13: in a run, a bad judge answer excludes its own sample only: the
\* overall score is the mean of the scores of the other samples, a result is
\* returned whenever one sample is evaluated, and the run fails only when
\* every sample is excluded.
C13_BadAnswerExcludesOnlyItsSample ==
  aggregated =>
    LET intended == IntendedScores(judge_responses)
    IN  /\ Len(per_invocation_results) = Len(judge_responses)
        /\ \A i \in 1..Len(intended) :
             per_invocation_results[i].score = intended[i]
        /\ CountOfSome(intended) > 0 =>
             /\ raised = ""
             /\ evaluation_result # None
             /\ evaluation_result[1].overall_score.den > 0
             /\ evaluation_result[1].overall_score.num * CountOfSome(intended)
                  = SumOfSome(intended) * evaluation_result[1].overall_score.den
        /\ CountOfSome(intended) = 0 =>
             (raised = "ZeroDivisionError" /\ evaluation_result = None)

\* a good, a bad and a good sample: the overall score is 1/2
C13_Witness ==
  /\ aggregated
  /\ Len(judge_responses) = 3
  /\ judge_responses[1] = RunAnswerValid
  /\ judge_responses[2] \in RunAnswersBad
  /\ judge_responses[3] = RunAnswerInvalid
  /\ evaluation_result # None
  /\ evaluation_result[1].overall_score = [num |-> 1, den |-> 2]

----------------------------------------------------------------------------
(* Formatting the prompt (SpecPrompt)                                      *)

MaxFormatCalls == 2

\* an evaluator right after construction, any pair of invocations; the
\* function specs of the expected invocation are absent or one spec
InitPrompt ==
  /\ judge_answer = RunAnswerValid
  /\ response_text = Join(judge_answer)
  /\ called = "none"
  /\ label = None
  /\ match_end = 0
  /\ rater_label = None
  /\ score = None
  /\ score_raised = ""
  /\ logged = <<>>
  /\ judge_responses = <<>>
  /\ NoAggregation
  /\ auto_rater_prompt_template = FINAL_RESPONSE_MATCH_V2_PROMPT
  /\ actual_invocation \in Invocations(MaxSpecs)
  /\ expected_invocation \in
       { i \in Invocations(1) :
           i.function_api_spec \in
             {<<>>, <<[name |-> <<"t">>, description |-> <<"\\", "\n">>]>>} }
  /\ prompt = None
  /\ format_calls = 0
  /\ NoFactory
  /\ NoReleaseNotes

\* prompt = evaluator.format_auto_rater_prompt(actual_invocation,
\*                                             expected_invocation)
FormatAutoRaterPromptCall ==
  /\ format_calls < MaxFormatCalls
  /\ format_calls' = format_calls + 1
  /\ LET outcome == FormatOutcome(auto_rater_prompt_template,
                                  actual_invocation, expected_invocation)
     IN  /\ prompt' = Some(outcome.prompt)
         /\ auto_rater_prompt_template' = outcome.auto_rater_prompt_template
         /\ actual_invocation' = outcome.actual_invocation
         /\ expected_invocation' = outcome.expected_invocation
  /\ UNCHANGED scoreVars
  /\ UNCHANGED aggVars
  /\ UNCHANGED factoryVars
  /\ UNCHANGED releaseVars

NextPrompt ==
  \/ FormatAutoRaterPromptCall
  \/ ConvertAutoRaterResponseToScore
  \/ AggregateInvocationResultsCall

SpecPrompt == InitPrompt /\ [][NextPrompt]_vars

\* first position of a symbol in a text, 0 when it is not there
IndexOf(text, symbol) ==
  IF \E i \in 1..Len(text) : text[i] = symbol
    THEN CHOOSE i \in 1..Len(text) :
           text[i] = symbol /\ \A j \in 1..(i - 1) : text[j] # symbol
    ELSE 0

\* what a prompt holds in the place of a placeholder of the template: the
\* text between the wording before the placeholder and the wording after it
SlotOf(p, name) ==
  LET t == FINAL_RESPONSE_MATCH_V2_PROMPT
      i == CHOOSE k \in 3..(Len(t) - 2) :
             t[k] = name /\ t[k - 1] = "{" /\ t[k + 1] = "}"
      a == IndexOf(p, t[i - 2])
      b == IndexOf(p, t[i + 2])
  IN  IF a = 0 \/ b = 0 \/ b < a THEN None ELSE Some(SubSeq(p, a + 1, b - 1))

\* reading a JSON string from the character after its opening quote
RECURSIVE ReadJsonString(_, _, _)
ReadJsonString(text, i, acc) ==
  IF i > Len(text) THEN [ok |-> FALSE, value |-> acc, next |-> i]
  ELSE IF text[i] = "\"" THEN [ok |-> TRUE, value |-> acc, next |-> i + 1]
  ELSE IF text[i] = "\\"
    THEN IF i + 1 > Len(text) THEN [ok |-> FALSE, value |-> acc, next |-> i]
         ELSE ReadJsonString(text, i + 2,
                Append(acc, IF text[i + 1] = "n" THEN "\n" ELSE text[i + 1]))
  ELSE ReadJsonString(text, i + 1, Append(acc, text[i]))

StartsWithAt(text, i, lit) ==
  /\ i + Len(lit) - 1 <= Len(text)
  /\ SubSeq(text, i, i + Len(lit) - 1) = lit

\* reading the key-value pairs of a JSON object from the character after its
\* opening brace
RECURSIVE ReadJsonPairs(_, _, _)
ReadJsonPairs(text, i, acc) ==
  IF ~StartsWithAt(text, i, <<"\"">>)
    THEN [ok |-> FALSE, value |-> acc, next |-> i]
  ELSE
    LET k == ReadJsonString(text, i + 1, <<>>)
    IN  IF ~k.ok \/ ~StartsWithAt(text, k.next, <<":", " ", "\"">>)
          THEN [ok |-> FALSE, value |-> acc, next |-> i]
        ELSE
          LET v == ReadJsonString(text, k.next + 3, <<>>)
              pairs == Append(acc, <<k.value, v.value>>)
          IN  IF ~v.ok THEN [ok |-> FALSE, value |-> acc, next |-> i]
              ELSE IF StartsWithAt(text, v.next, <<"}">>)
                THEN [ok |-> TRUE, value |-> pairs, next |-> v.next + 1]
              ELSE IF StartsWithAt(text, v.next, <<",", " ">>)
                THEN ReadJsonPairs(text, v.next + 2, pairs)
              ELSE [ok |-> FALSE, value |-> acc, next |-> i]

\* reading the objects of a JSON list from the opening brace of one of them
RECURSIVE ReadJsonObjects(_, _, _)
ReadJsonObjects(text, i, acc) ==
  IF ~StartsWithAt(text, i, <<"{">>)
    THEN [ok |-> FALSE, value |-> acc]
  ELSE
    LET o == ReadJsonPairs(text, i + 1, <<>>)
        objects == Append(acc, o.value)
    IN  IF ~o.ok THEN [ok |-> FALSE, value |-> acc]
        ELSE IF StartsWithAt(text, o.next, <<"]">>) /\ o.next = Len(text)
          THEN [ok |-> TRUE, value |-> objects]
        ELSE IF StartsWithAt(text, o.next, <<",", " ">>)
          THEN ReadJsonObjects(text, o.next + 2, objects)
        ELSE [ok |-> FALSE, value |-> acc]

\* json.loads of a list of objects of strings: the objects in order, each
\* the sequence of its key-value pairs in order
JsonLoads(text) ==
  IF text = <<"[", "]">> THEN [ok |-> TRUE, value |-> <<>>]
  ELSE IF ~StartsWithAt(text, 1, <<"[">>) THEN [ok |-> FALSE, value |-> <<>>]
  ELSE ReadJsonObjects(text, 2, <<>>)

\* C14: the prompt holds, in the place of function_api_spec, the function
\* specs of the actual invocation; in the place of prompt, the text of the
\* user content of the expected invocation; in the place of response, the
\* text of the final response of the actual invocation; in the place of
\* golden_response, the text of the final response of the expected
\* invocation.  Whatever the user content of the actual invocation and the
\* function specs of the expected invocation are, the prompt is the same.
C14_PlaceholdersFilledFromTheirInputs ==
  format_calls > 0 =>
    /\ prompt # None
    /\ SlotOf(prompt[1], "function_api_spec")
         = Some(FormatFunctionApiSpec(actual_invocation.function_api_spec))
    /\ SlotOf(prompt[1], "prompt")
         = Some(GetTextFromContent(expected_invocation.user_content))
    /\ SlotOf(prompt[1], "response")
         = Some(GetTextFromContent(actual_invocation.final_response))
    /\ SlotOf(prompt[1], "golden_response")
         = Some(GetTextFromContent(expected_invocation.final_response))
    /\ \A other_content \in Contents, other_specs \in FunctionSpecLists(1) :
         FormatOutcome(
           auto_rater_prompt_template,
           [actual_invocation EXCEPT !.user_content = other_content],
           [expected_invocation EXCEPT !.function_api_spec = other_specs]).prompt
           = prompt[1]

\* a prompt made from two invocations that differ in every field
C14_Witness ==
  /\ format_calls > 0
  /\ prompt # None
  /\ GetTextFromContent(actual_invocation.user_content)
       # GetTextFromContent(expected_invocation.user_content)
  /\ GetTextFromContent(actual_invocation.final_response)
       # GetTextFromContent(expected_invocation.final_response)
  /\ GetTextFromContent(actual_invocation.user_content)
       # GetTextFromContent(actual_invocation.final_response)
  /\ actual_invocation.function_api_spec # <<>>
  /\ expected_invocation.function_api_spec # <<>>
  /\ actual_invocation.function_api_spec # expected_invocation.function_api_spec

\* C15: the function-spec field of the prompt reads as a JSON list with one
\* object for each function spec of the actual invocation, in order, each
\* object having the keys Function name and Function description, in this
\* order, with the name and the description of the spec; and the prompt is
\* the wording of the template with that field and the three texts put in
\* as they are, nothing added around or inside them.
C15_SpecFieldIsJsonListTextsAreLiteral ==
  format_calls > 0 =>
    LET functions == actual_invocation.function_api_spec
        field == SlotOf(prompt[1], "function_api_spec")
        loaded == JsonLoads(field[1])
    IN  /\ field # None
        /\ loaded.ok
        /\ Len(loaded.value) = Len(functions)
        /\ \A i \in 1..Len(functions) :
             loaded.value[i] =
               <<<<(<<"Function name">>), functions[i].name>>,
                 <<(<<"Function description">>), functions[i].description>>>>
        /\ prompt[1] =
             <<"instructions\n", "{", "\n  \"Function API spec\": ">>
               \o field[1]
               \o <<",\n  \"User prompt\": ">>
               \o GetTextFromContent(expected_invocation.user_content)
               \o <<",\n  \"Agent response\": ">>
               \o GetTextFromContent(actual_invocation.final_response)
               \o <<",\n  \"Reference response\": ">>
               \o GetTextFromContent(expected_invocation.final_response)
               \o <<",\n", "}", "\n\nanswer format\n", "{",
                    "\n  \"is_the_agent_response_valid\": [valid or invalid],\n  \"reasoning\":\n",
                    "}", "\n">>

\* a prompt for two function specs, a quote in a name and a backslash in a
\* description, and for texts with a quote, braces and a backslash in them
C15_Witness ==
  /\ format_calls > 0
  /\ Len(actual_invocation.function_api_spec) = 2
  /\ actual_invocation.function_api_spec[1].name = <<"a", "\"">>
  /\ actual_invocation.function_api_spec[2].description = <<"\\", "\n">>
  /\ actual_invocation.function_api_spec[1] # actual_invocation.function_api_spec[2]
  /\ GetTextFromContent(actual_invocation.final_response)
       = <<"\"", "{", "r", "}", "\\", "\n">>
  /\ GetTextFromContent(expected_invocation.final_response) = <<"q", "?">>
  /\ GetTextFromContent(expected_invocation.user_content)
       = <<"\"", "{", "r", "}", "\\", "\n">>
  /\ prompt # None

----------------------------------------------------------------------------
(* The status of a result (SpecResults)                                    *)

MaxGiven == 1

\* the last three results the aggregation test writes
GivenResults ==
  { [score |-> None, eval_status |-> "PASSED"],
    [score |-> Some(100), eval_status |-> "NOT_EVALUATED"],
    [score |-> None, eval_status |-> "NOT_EVALUATED"] }

\* the caller's list may already hold results the caller wrote itself, as
\* the list of the aggregation test does
InitResults ==
  /\ threshold = [num |-> 1, den |-> 2]
  /\ per_invocation_results \in
       UNION {[1..k -> GivenResults] : k \in 0..MaxGiven}
  /\ aggregated = FALSE
  /\ raised = ""
  /\ evaluation_result = None
  /\ NoScoring
  /\ NoPrompt
  /\ NoReleaseNotes
  /\ NoFactory

NextResults == ScoreSample \/ AggregateInvocationResultsCall

SpecResults == InitResults /\ [][NextResults]_vars

\* a result that is on the list stays on the list as it is
ResultsAreKept ==
  /\ Len(per_invocation_results') >= Len(per_invocation_results)
  /\ \A i \in 1..Len(per_invocation_results) :
       per_invocation_results'[i] = per_invocation_results[i]

\* a sample that has been scored comes onto the list with its score, PASSED
\* or FAILED when it has a score and NOT_EVALUATED when it has none
ScoredSampleGetsItsStatus ==
  (judge_responses' # judge_responses /\ raised' = "") =>
    /\ Len(per_invocation_results') = Len(per_invocation_results) + 1
    /\ LET result == per_invocation_results'[Len(per_invocation_results')]
       IN  /\ result.score = score'
           /\ score' # None => result.eval_status \in {"PASSED", "FAILED"}
           /\ score' = None => result.eval_status = "NOT_EVALUATED"

\* aggregation leaves the list as it is
AggregationKeepsTheList ==
  (aggregated' /\ ~aggregated /\ judge_responses' = judge_responses) =>
    per_invocation_results' = per_invocation_results

NoNullScoreIsPassedOrFailed ==
  \A i \in 1..Len(per_invocation_results) :
    per_invocation_results[i].score = None =>
      per_invocation_results[i].eval_status \notin {"PASSED", "FAILED"}

\* C17 as stated: a result gets PASSED or FAILED only when it has been
\* scored and NOT_EVALUATED when scoring failed, no later step changes a
\* status, and no result with a null score is ever PASSED or FAILED.
C17_StatusStateMachine ==
  /\ []NoNullScoreIsPassedOrFailed
  /\ [][ResultsAreKept /\ ScoredSampleGetsItsStatus
          /\ AggregationKeepsTheList]_vars

\* C17: a result made by scoring a sample is PASSED or FAILED exactly when
\* the sample has a score and NOT_EVALUATED exactly when it has none; no
\* step, aggregation included, changes or removes a result that is on the
\* list, whatever its status and its score are.
C17_StatusOnceSetIsKept ==
  [][ResultsAreKept /\ ScoredSampleGetsItsStatus
       /\ AggregationKeepsTheList]_vars

\* the list after aggregation: a result the caller wrote with no score and
\* PASSED, as in the aggregation test, and after it a sample scored without
\* a score and a sample scored with one
C17_Witness ==
  /\ aggregated
  /\ Len(per_invocation_results) = 3
  /\ per_invocation_results[1] = [score |-> None, eval_status |-> "PASSED"]
  /\ per_invocation_results[2] = [score |-> None, eval_status |-> "NOT_EVALUATED"]
  /\ per_invocation_results[3].score = Some(1)
  /\ per_invocation_results[3].eval_status = "PASSED"
  /\ Len(judge_responses) = 2
  /\ evaluation_result # None

----------------------------------------------------------------------------
(* Building agents from configs (SpecFactory)                              *)

TypeNames == {"LlmAgent", "LoopAgent", "CustomAgent", "Other"}

AgentClasses == {"LlmAgent", "MyAgent"}

ConfigClasses == {"LlmAgentConfig", "MyAgentConfig"}

HelperCode == Some(CodeConfig("lib.helper_agent"))

\* config objects of the three config classes
AgentConfigObjects ==
  { LlmAgentConfig(<<"root">>, None, None),
    LoopAgentConfig(<<"loop">>, None, None),
    CustomAgentConfig(<<"custom">>, <<"lib.helper_agent">>, None, None),
    LlmAgentConfig(<<"parent">>, None,
                   Some(<<SubAgentConfig(None, HelperCode)>>)) }

AgentsConfigs ==
  { AgentsConfig(agents) :
      agents \in UNION {[1..k -> AgentConfigObjects] : k \in 0..MaxAgents} }

\* what from_config is called with: a path, an AgentsConfig, a config
\* object, or an object of another type
FromConfigInputs ==
  {PyStr(<<path>>) : path \in Paths}
    \cup AgentsConfigs
    \cup AgentConfigObjects
    \cup {PyInt, PyNone, PyDict([name |-> PyStr(<<"root">>)]),
          TypedConfig("LlmAgent", LlmAgentConfig(<<"root">>, None, None))}

CallbackLists ==
  {None} \cup {Some(<<CodeConfig(name)>>) : name \in CodeNames \ {"lib.helper_agent"}}

SubAgentLists ==
  { None,
    Some(<<>>),
    Some(<<SubAgentConfig(None, HelperCode)>>),
    Some(<<SubAgentConfig(None, Some(CodeConfig("lib.callback")))>>),
    Some(<<SubAgentConfig(Some(<<"agents_yaml">>), None)>>),
    Some(<<SubAgentConfig(Some(<<"missing_yaml">>), None)>>),
    Some(<<SubAgentConfig(Some(<<>>), None)>>),
    Some(<<SubAgentConfig(None, None)>>),
    Some(<<SubAgentConfig(Some(<<"agents_yaml">>), HelperCode)>>),
    Some(<<SubAgentConfig(None, HelperCode),
           SubAgentConfig(None, Some(CodeConfig("lib.missing")))>>),
    Some(<<SubAgentConfig(None, HelperCode), SubAgentConfig(None, HelperCode)>>) }

\* what _build_agent_from_agent_config is called with: an object with type
\* and config, or a config object
BuildInputs ==
  { TypedConfig(type, LlmAgentConfig(<<"root">>, callbacks, sub_agents)) :
      type \in TypeNames, callbacks \in CallbackLists,
      sub_agents \in SubAgentLists }
    \cup { TypedConfig(type, LoopAgentConfig(<<"loop">>, None, sub_agents)) :
             type \in TypeNames, sub_agents \in SubAgentLists }
    \cup AgentConfigObjects

InitFactory ==
  /\ NoFactory
  /\ NoScoring
  /\ NoAggregation
  /\ NoPrompt
  /\ NoReleaseNotes

\* AgentFactory._register_agent_type(name, agent_class, config_class)
RegisterAgentType ==
  /\ registrations < MaxRegistrations
  /\ registrations' = registrations + 1
  /\ \E name \in TypeNames, agent_class \in AgentClasses,
        config_class \in ConfigClasses :
       /\ agent_registry' = Registered(agent_registry, name, agent_class)
       /\ config_registry' = Registered(config_registry, name, config_class)
       /\ registered' = Some([name |-> name, agent_class |-> agent_class,
                              config_class |-> config_class])
  /\ UNCHANGED <<factory_called, factory_config, factory_raised,
                 factory_result, agent_heap>>
  /\ UNCHANGED scoreVars
  /\ UNCHANGED aggVars
  /\ UNCHANGED promptVars
  /\ UNCHANGED releaseVars

\* AgentFactory.from_config(config)
FromConfig ==
  /\ factory_called = "none"
  /\ factory_called' = "from_config"
  /\ \E config \in FromConfigInputs :
       LET outcome == FromConfigOutcome(config, agent_heap, agent_registry)
       IN  /\ factory_config' = config
           /\ factory_raised' = outcome.raised
           /\ factory_result' = IF outcome.raised = "" THEN Some(outcome.value)
                                ELSE None
           /\ agent_heap' = outcome.heap
  /\ UNCHANGED <<agent_registry, config_registry, registrations, registered>>
  /\ UNCHANGED scoreVars
  /\ UNCHANGED aggVars
  /\ UNCHANGED promptVars
  /\ UNCHANGED releaseVars

\* AgentFactory._build_agent_from_agent_config(agent_config)
BuildAgentFromAgentConfigCall ==
  /\ factory_called = "none"
  /\ factory_called' = "_build_agent_from_agent_config"
  /\ \E agent_config \in BuildInputs :
       LET outcome == BuildAgentFromAgentConfig(agent_config, agent_heap,
                                                agent_registry)
       IN  /\ factory_config' = agent_config
           /\ factory_raised' = outcome.raised
           /\ factory_result' = IF outcome.raised = "" THEN Some(outcome.value)
                                ELSE None
           /\ agent_heap' = outcome.heap
  /\ UNCHANGED <<agent_registry, config_registry, registrations, registered>>
  /\ UNCHANGED scoreVars
  /\ UNCHANGED aggVars
  /\ UNCHANGED promptVars
  /\ UNCHANGED releaseVars

\* the config of a SubAgentConfig: none, the empty string, or a path
SubAgentPaths ==
  {None, Some(<<>>), Some(<<"agents_yaml">>), Some(<<"missing_yaml">>),
   Some(<<"empty_yaml">>), Some(<<"other_yaml">>)}

SubAgentCodes == {None} \cup {Some(CodeConfig(name)) : name \in CodeNames}

SubAgentConfigs ==
  {SubAgentConfig(config, code) : config \in SubAgentPaths, code \in SubAgentCodes}

\* AgentFactory._build_sub_agent(sub_config)
BuildSubAgentCall ==
  /\ factory_called = "none"
  /\ factory_called' = "_build_sub_agent"
  /\ \E sub_config \in SubAgentConfigs :
       LET outcome == BuildSubAgent(sub_config, agent_heap, agent_registry)
       IN  /\ factory_config' = sub_config
           /\ factory_raised' = outcome.raised
           /\ factory_result' = IF outcome.raised = "" THEN Some(outcome.value)
                                ELSE None
           /\ agent_heap' = outcome.heap
  /\ UNCHANGED <<agent_registry, config_registry, registrations, registered>>
  /\ UNCHANGED scoreVars
  /\ UNCHANGED aggVars
  /\ UNCHANGED promptVars
  /\ UNCHANGED releaseVars

NextFactory ==
  \/ RegisterAgentType
  \/ FromConfig
  \/ BuildAgentFromAgentConfigCall
  \/ BuildSubAgentCall

SpecFactory == InitFactory /\ [][NextFactory]_vars

\* no agent has been constructed by the call
NoAgentConstructed == agent_heap = <<HelperAgent>>

\* C18: from_config of an AgentsConfig with several agents returns an agent
\* made from the first entry, and every other entry has an agent made from
\* it among the sub-agents of that agent, with that agent as its parent.
C18_FirstAgentIsRootOthersAreSubAgents ==
  (/\ factory_called = "from_config"
   /\ factory_config.class = "AgentsConfig"
   /\ Len(factory_config.agents) >= 2) =>
    /\ factory_raised = ""
    /\ factory_result # None
    /\ LET root_id == factory_result[1].id
           root == agent_heap[root_id]
       IN  /\ root.name = factory_config.agents[1].name
           /\ \A i \in 2..Len(factory_config.agents) :
                \E j \in 1..Len(root.sub_agents) :
                  /\ root.sub_agents[j].class = "agent"
                  /\ agent_heap[root.sub_agents[j].id].name
                       = factory_config.agents[i].name
                  /\ agent_heap[root.sub_agents[j].id].parent_agent = root_id

\* the file holds a mapping whose agents is a list
IsAgentsList(data) ==
  /\ data.class = "dict"
  /\ "agents" \in DOMAIN data.entries
  /\ data.entries.agents.class = "list"

\* the file holds a mapping with type and config
IsTypedMapping(data) ==
  /\ data.class = "dict"
  /\ {"type", "config"} \subseteq DOMAIN data.entries

\* C19: from_config raises FileNotFoundError for a path to a file that does
\* not exist and ValueError for an AgentsConfig with no agents, for a config
\* object of an unsupported type, and for a file whose data is neither a
\* mapping with an agents list nor a mapping with type and config; in each
\* of these cases no agent is constructed.
C19_MissingFileAndInvalidConfigErrors ==
  factory_called = "from_config" =>
    /\ (factory_config.class = "str"
          /\ factory_config.value[1] \notin DOMAIN Files) =>
         (factory_raised = "FileNotFoundError" /\ NoAgentConstructed)
    /\ (factory_config.class = "AgentsConfig"
          /\ factory_config.agents = <<>>) =>
         (IsValueError(factory_raised) /\ NoAgentConstructed)
    /\ (factory_config.class \notin {"str", "AgentsConfig"}
          /\ ~IsAgentConfig(factory_config)) =>
         (IsValueError(factory_raised) /\ NoAgentConstructed)
    /\ (/\ factory_config.class = "str"
        /\ factory_config.value[1] \in DOMAIN Files
        /\ Files[factory_config.value[1]].class # "malformed"
        /\ ~IsAgentsList(Files[factory_config.value[1]])
        /\ ~IsTypedMapping(Files[factory_config.value[1]])) =>
         (IsValueError(factory_raised) /\ NoAgentConstructed)

\* the agent type a config names, if it names one: the agent_type of a
\* config object, that of the first entry of an AgentsConfig, the type of a
\* file that holds a mapping with type and config
TypeNamedBy(config) ==
  IF config.class = "AgentsConfig"
    THEN IF config.agents # <<>> /\ "agent_type" \in DOMAIN config.agents[1]
           THEN Some(config.agents[1].agent_type)
           ELSE None
  ELSE IF IsAgentConfig(config)
    THEN IF "agent_type" \in DOMAIN config THEN Some(config.agent_type)
         ELSE None
  ELSE IF config.class = "str" /\ config.value # <<>>
    THEN IF config.value[1] \in DOMAIN Files
              /\ IsTypedMapping(Files[config.value[1]])
              /\ Files[config.value[1]].entries.type.class = "str"
              /\ Len(Files[config.value[1]].entries.type.value) = 1
           THEN Some(Files[config.value[1]].entries.type.value[1])
           ELSE None
  ELSE None

\* C20: from_config raises ValueError whenever the agent type the config
\* names is not a key of the agent registry.
C20_UnknownAgentTypeRaisesValueError ==
  (/\ factory_called = "from_config"
   /\ TypeNamedBy(factory_config) # None
   /\ TypeNamedBy(factory_config)[1] \notin DOMAIN agent_registry) =>
    factory_raised = "ValueError"

\* the call left the factory as this outcome says
FactoryOutcomeIs(outcome) ==
  /\ factory_raised = outcome.raised
  /\ factory_result = (IF outcome.raised = "" THEN Some(outcome.value) ELSE None)
  /\ agent_heap = outcome.heap

\* the sub-agent is what the code reference resolves to, and it is the same
\* whatever config is
BuiltFromCode ==
  /\ FactoryOutcomeIs(
       LET resolved == ResolveCodeReference(factory_config.code)
       IN  Built(resolved.raised, resolved.value, <<HelperAgent>>))
  /\ \A other \in SubAgentPaths :
       FactoryOutcomeIs(
         BuildSubAgent(SubAgentConfig(other, factory_config.code),
                       <<HelperAgent>>, agent_registry))

\* the sub-agent is what from_config gives for the path
BuiltByFromConfig ==
  FactoryOutcomeIs(
    FromConfigOutcome(PyStr(factory_config.config[1]), <<HelperAgent>>,
                      agent_registry))

\* C21 as stated: with code and config set the sub-agent is built from code
\* and config is not read; with config alone set, it is built by from_config
\* on that path; with neither set the build raises ValueError.
C21_CodeOverridesConfig ==
  factory_called = "_build_sub_agent" =>
    /\ (factory_config.code # None /\ factory_config.config # None) =>
         BuiltFromCode
    /\ (factory_config.code = None /\ factory_config.config # None) =>
         BuiltByFromConfig
    /\ (factory_config.code = None /\ factory_config.config = None) =>
         (factory_raised = "ValueError" /\ NoAgentConstructed)

\* C21: with code set the sub-agent is built from code and config is not
\* read; with no code and config a path that is not the empty string, it is
\* built by from_config on that path; with no code and config absent or the
\* empty string the build raises ValueError.
C21_CodeOverridesNonEmptyConfig ==
  factory_called = "_build_sub_agent" =>
    /\ factory_config.code # None => BuiltFromCode
    /\ (factory_config.code = None /\ Truthy(factory_config.config)) =>
         BuiltByFromConfig
    /\ (factory_config.code = None /\ ~Truthy(factory_config.config)) =>
         (factory_raised = "ValueError" /\ NoAgentConstructed)

\* a sub-agent config with code and config, built: the agent the code names
C21_Witness ==
  /\ factory_called = "_build_sub_agent"
  /\ factory_config.code = HelperCode
  /\ factory_config.config = Some(<<"missing_yaml">>)
  /\ factory_raised = ""
  /\ factory_result = Some(AgentRef(1))


----------------------------------------------------------------------------
(* The release-notes agent: one get_commits call, one get_file_content    *)
(* call, against a server that answers as it likes.                        *)

InitReleaseNotes ==
  /\ NoReleaseNotes
  /\ NoScoring
  /\ NoAggregation
  /\ NoPrompt
  /\ NoFactory

\* A page after which the loop requests no further one.
IsLastPageOrError(response) ==
  IF response.exception # "" \/ response.body = <<>> \/ response.link = None
    THEN TRUE
    ELSE ~HasRelNext(response.link[1])

\* get_commits up to the loop.
GetCommitsCall ==
  /\ commits_phase = "idle"
  /\ commits_phase' = "running"
  /\ page' = 1
  /\ all_commits' = <<>>
  /\ UNCHANGED <<page_responses, commits_result, file_response,
                 file_outcome, printed>>
  /\ UNCHANGED scoreVars
  /\ UNCHANGED aggVars
  /\ UNCHANGED promptVars
  /\ UNCHANGED factoryVars

\* One request of the loop.  The server has at most MaxPages pages: the
\* answer to request number MaxPages is a last page or an error.
GetCommitsIterationStep ==
  /\ commits_phase = "running"
  /\ Len(page_responses) < MaxPages
  /\ \E response \in PageResponses(page) :
       /\ Len(page_responses) + 1 = MaxPages => IsLastPageOrError(response)
       /\ LET after == GetCommitsIteration(page, all_commits, response)
          IN  /\ commits_phase' = after.phase
              /\ page' = after.page
              /\ all_commits' = after.all_commits
              /\ commits_result' = after.result
              /\ printed' = printed \o after.printed
       /\ page_responses' =
            Append(page_responses, [page |-> page, response |-> response])
  /\ UNCHANGED <<file_response, file_outcome>>
  /\ UNCHANGED scoreVars
  /\ UNCHANGED aggVars
  /\ UNCHANGED promptVars
  /\ UNCHANGED factoryVars

GetFileContentCall ==
  /\ file_response = None
  /\ \E response \in FileResponses :
       /\ file_response' = Some(response)
       /\ LET outcome == GetFileContent(response)
          IN  /\ file_outcome' =
                   Some([raised |-> outcome.raised, value |-> outcome.value])
              /\ printed' = printed \o outcome.printed
  /\ UNCHANGED <<commits_phase, page, all_commits, page_responses,
                 commits_result>>
  /\ UNCHANGED scoreVars
  /\ UNCHANGED aggVars
  /\ UNCHANGED promptVars
  /\ UNCHANGED factoryVars

NextReleaseNotes ==
  \/ GetCommitsCall
  \/ GetCommitsIterationStep
  \/ GetFileContentCall

SpecReleaseNotes == InitReleaseNotes /\ [][NextReleaseNotes]_vars

\* The loop runs in one thread with nothing to wait for but the server's
\* answer: a started call keeps taking iterations.
SpecReleaseNotesFair ==
  /\ InitReleaseNotes
  /\ [][NextReleaseNotes]_vars
  /\ WF_vars(GetCommitsIterationStep)


RequestFailed(i) == page_responses[i].response.exception # ""

\* C22: when a page request fails, on the first page or on a later one,
\* get_commits returns the empty list, whatever it collected from earlier
\* pages; it also returns the empty list when no page held a commit.
C22_FailedRequestReturnsEmptyList ==
  commits_phase = "returned" =>
    /\ (\E i \in 1..Len(page_responses) : RequestFailed(i))
         => commits_result = Some(<<>>)
    /\ (\A i \in 1..Len(page_responses) :
           page_responses[i].response.body = <<>>)
         => commits_result = Some(<<>>)

C22_Witness ==
  /\ commits_phase = "returned"
  /\ Len(page_responses) = 2
  /\ ~RequestFailed(1)
  /\ RequestFailed(2)
  /\ all_commits # <<>>
  /\ commits_result = Some(<<>>)


\* C23: get_file_content returns the pair (content, sha) of the file on
\* success, and the pair (None, None) when the file is not found or any
\* request error occurs.
C23_ContentAndShaOrNonePair ==
  file_outcome # None =>
    LET response == file_response[1]
        outcome == file_outcome[1]
    IN  IF response.exception # ""
          THEN outcome.raised = "" /\ outcome.value = <<None, None>>
          ELSE outcome.raised = "" =>
                 /\ outcome.value[1] # None
                 /\ outcome.value[2] = response.body.sha


HasBothKeys == Len(judge_answer) = 7 /\ judge_answer \in TwoKeyAnswers

\* the word written as the value of the given key in an answer with both keys
WordOfKey(key) ==
  LET value == IF judge_answer[2] = key THEN judge_answer[3] ELSE judge_answer[6]
  IN  SubSeq(value, 3, Len(value) - 1)

IsOneWord(w) == \A i \in 1..Len(w) : w[i] # " "

\* C25: the valid key has precedence by pattern match, not by position.  In
\* a text with both keys, each value followed by a comma, newline or brace:
\* when both values are one word the label is the word of the valid key,
\* also when the invalid key comes first; when the value of the valid key is
\* two words the label is the word of the invalid key if that is one word.
C25_ValidKeyPrecedenceByMatch ==
  (called = "extract" /\ HasBothKeys) =>
    LET valid_word == WordOfKey(ValidKeyLiteral)
        invalid_word == WordOfKey(InvalidKeyLiteral)
    IN  /\ (IsOneWord(valid_word) /\ IsOneWord(invalid_word))
             => label = Some(valid_word)
        /\ (~IsOneWord(valid_word) /\ IsOneWord(invalid_word))
             => label = Some(invalid_word)

\* the invalid key comes first and both match: the valid key's label wins
C25_Witness ==
  /\ called = "extract"
  /\ HasBothKeys
  /\ judge_answer[2] = InvalidKeyLiteral
  /\ WordOfKey(InvalidKeyLiteral) = WordInvalid
  /\ WordOfKey(ValidKeyLiteral) = WordValid
  /\ label = Some(WordValid)


\* the entries of the sub_agents list of the config the call was given
SubAgentEntries ==
  IF factory_config.config.sub_agents = None THEN <<>>
  ELSE factory_config.config.sub_agents[1]

\* the sub-agents of the agent are those of the entries, one for each, in
\* config order, each an agent whose parent is the agent; an entry with code
\* gives the object the code names, an entry with a config file an agent
\* built after the agent itself
SubAgentsFollowEntries(agent_id, entries) ==
  LET agent == agent_heap[agent_id]
  IN  /\ Len(agent.sub_agents) = Len(entries)
      /\ \A i \in 1..Len(entries) :
           LET sub_agent == agent.sub_agents[i]
           IN  /\ sub_agent.class = "agent"
               /\ agent_heap[sub_agent.id].parent_agent = agent_id
               /\ IF entries[i].code # None
                    THEN Ok(sub_agent) = ResolveCodeReference(entries[i].code)
                    ELSE sub_agent.id > agent_id

LastCallRegistered ==
  registered' # registered =>
    LET call == registered'[1]
    IN  /\ DOMAIN agent_registry' = DOMAIN agent_registry \cup {call.name}
        /\ agent_registry'[call.name] = call.agent_class
        /\ config_registry'[call.name] = call.config_class
        /\ \A n \in DOMAIN agent_registry \ {call.name} :
             /\ agent_registry'[n] = agent_registry[n]
             /\ config_registry'[n] = config_registry[n]

\* C27: after any sequence of _register_agent_type calls the two registries
\* have the same type names; a call for a registered name replaces both its
\* agent class and its config class by those of the call; and after import
\* both registries hold LlmAgent and LoopAgent and not CustomAgent.
C27_RegistriesStayInStep ==
  /\ [](/\ DOMAIN agent_registry = DOMAIN config_registry
        /\ registrations = 0 =>
             /\ {"LlmAgent", "LoopAgent"} \subseteq DOMAIN agent_registry
             /\ "CustomAgent" \notin DOMAIN agent_registry)
  /\ [][LastCallRegistered]_vars

\* LlmAgent registered again, with another agent class and config class
C27_Witness ==
  /\ registered = Some([name |-> "LlmAgent", agent_class |-> "MyAgent",
                        config_class |-> "MyAgentConfig"])
  /\ agent_registry.LlmAgent = "MyAgent"
  /\ config_registry.LlmAgent = "MyAgentConfig"
  /\ DOMAIN agent_registry = {"LlmAgent", "LoopAgent"}


\* the commits of the first n requested pages, in page order
RECURSIVE CommitsOfRequests(_)
CommitsOfRequests(n) ==
  IF n = 0 THEN <<>>
  ELSE CommitsOfRequests(n - 1) \o page_responses[n].response.body

\* a page that is empty, has no Link header, or a Link header without next
EndsListing(response) ==
  \/ response.body = <<>>
  \/ response.link = None
  \/ \A i \in 1..Len(response.link[1]) : response.link[1][i] # "next"

PagesInOrderUntilLastPage ==
  /\ \A i \in 1..Len(page_responses) : page_responses[i].page = i
  /\ \A i \in 1..Len(page_responses) :
       (RequestFailed(i) \/ EndsListing(page_responses[i].response))
         => (i = Len(page_responses) /\ commits_phase = "returned")
  /\ commits_phase = "returned" =>
       /\ page_responses # <<>>
       /\ \/ RequestFailed(Len(page_responses))
          \/ EndsListing(page_responses[Len(page_responses)].response)
       /\ (\A i \in 1..Len(page_responses) : ~RequestFailed(i))
            => commits_result = Some(CommitsOfRequests(Len(page_responses)))

\* C28: get_commits requests the pages 1, 2, 3, ... in this order, each
\* once; it stops at the first page that is empty, has no Link header or has
\* a Link header without rel next, and at the first failed request; when no
\* request fails it returns the commits of all requested pages in page
\* order; and against a server that has a last page, a started call returns.
C28_PagesInOrderAndLoopTerminates ==
  /\ []PagesInOrderUntilLastPage
  /\ (commits_phase = "running") ~> (commits_phase = "returned")

\* three pages requested, none failed, the commits of all three returned
C28_Witness ==
  /\ commits_phase = "returned"
  /\ Len(page_responses) = 3
  /\ \A i \in 1..3 : ~RequestFailed(i)
  /\ page = 3
  /\ commits_result = Some(CommitsOfRequests(3))
  /\ Len(commits_result[1]) = 5

====
